---- MODULE Spec2Model ----
(***************************************************************************)
(* Model of the bridge daemon of src/bridge/client.js: the stream socket   *)
(* protocol (auth, ping, whoami, send), the connection registry            *)
(* (activeConnections), the per-recipient queues (pendingQueues), the      *)
(* router (deliverEnvelope) and the operator HTTP send.                    *)
(*                                                                         *)
(* The daemon runs on one event loop: every event handler ("data",         *)
(* "close", an HTTP request) runs to completion before the next one        *)
(* starts, so each handler is one atomic action here.  A "data" handler    *)
(* processes every complete line of the chunk it was given; that loop is   *)
(* the recursive operator processLines.                                    *)
(***************************************************************************)
EXTENDS Integers, Sequences, FiniteSets, TLC

\* ------------------------------------------------------------- bounds
\* Connections the daemon accepts during a run.
MaxConns == 2
\* Envelopes the daemon constructs during a run.
MaxEnvelopes == 3
\* Lines one chunk carries.
MaxChunk == 2
\* config.queueLimit (default 500) and config.maxMessageBytes (default 65536),
\* scaled down.
queueLimit == 2
maxMessageBytes == 4

Conns == 1..MaxConns

\* ------------------------------------------------------------- JSON values
\* A field a JSON object does not have (undefined), and JSON null.
Absent == "<absent>"
Null == "<null>"
\* JavaScript falsiness of the values the model uses.
Falsy(v) == v \in {Absent, Null, ""}

\* ------------------------------------------------------------- config
\* sha256 over the keys and tokens the model uses, as a sequence of hex digits.
sha256(input) ==
    CASE input = "ka" -> <<1, 10, 7, 3>>
      [] input = "kb" -> <<2, 11, 0, 9>>
      [] input = "admin" -> <<6, 6, 1, 15>>
      [] input = "" -> <<14, 3, 11, 0>>
      [] OTHER -> <<4, 13, 8, 2>>

\* Buffer.from(text, "hex"): one byte per pair of hex digits, an odd last digit
\* is dropped.
HexBytes(hex) == [i \in 1..(Len(hex) \div 2) |-> 16 * hex[2 * i - 1] + hex[2 * i]]

\* The registry: config.clients, as loadConfig returns it.
clients ==
    << [id |-> "a", keySha256 |-> <<1, 10, 7, 3>>, canSendTo |-> {"b"}],
       [id |-> "b", keySha256 |-> <<2, 11, 0, 9>>, canSendTo |-> {"*"}] >>

adminTokenSha256 == <<6, 6, 1, 15>>

ClientIds == {clients[i].id : i \in 1..Len(clients)}

clientsById == [id \in ClientIds |-> CHOOSE c \in {clients[i] : i \in 1..Len(clients)} : c.id = id]

safeCompareHash(plain, expectedHash) ==
    LET actual == HexBytes(sha256(plain))
        expected == HexBytes(expectedHash)
    IN IF Len(actual) # Len(expected) THEN FALSE ELSE actual = expected

canRouteMutAllowAll(fromClientId, toClientId) == fromClientId \in ClientIds

canRouteMutNoWildcard(fromClientId, toClientId) ==
    IF fromClientId \notin ClientIds THEN FALSE
    ELSE toClientId \in clientsById[fromClientId].canSendTo

canRoute(fromClientId, toClientId) ==
    IF fromClientId \notin ClientIds THEN FALSE
    ELSE IF "*" \in clientsById[fromClientId].canSendTo THEN TRUE
    ELSE toClientId \in clientsById[fromClientId].canSendTo

\* ------------------------------------------------------------- input lines
\* One line of the stream: its syntax ("object": a JSON object; "null": the JSON
\* literal null; "garbage": not JSON; "blank": only white space), the byte length of
\* the trimmed line, and the fields of the object.  The bytes a chunk ends with after
\* its last newline are a line of syntax "partial"; the line a chunk starts with
\* carries the bytes the chunk brings, the buffer holds the ones before them.
Line(syntax, bytes, action, clientId, apiKey, to, from, id, type, payload, correlationId) ==
    [syntax |-> syntax, bytes |-> bytes, action |-> action, clientId |-> clientId,
     apiKey |-> apiKey, to |-> to, from |-> from, id |-> id, type |-> type,
     payload |-> payload, correlationId |-> correlationId]

Plain(action, bytes) ==
    Line("object", bytes, action, Absent, Absent, Absent, Absent, Absent, Absent, Absent, Absent)

AuthLine(clientId, apiKey) ==
    Line("object", 1, "auth", clientId, apiKey, Absent, Absent, Absent, Absent, Absent, Absent)

\* A send with only `to`, and one that also names a sender (`from`, `clientId`).
SendPlain(to) ==
    Line("object", 1, "send", Absent, Absent, to, Absent, Absent, Absent, Absent, Absent)

SendForged(to, from) ==
    Line("object", 1, "send", from, Absent, to, from, Absent, Absent, Absent, Absent)

AuthLines ==
    {AuthLine(p[1], p[2]) : p \in {<<"a", "ka">>, <<"b", "kb">>, <<"a", "kb">>, <<"x", "ka">>}}

SendLines ==
    {SendPlain(to) : to \in {"a", "x", Absent}} \cup {SendForged("b", "b")}

OtherLines ==
    {Plain("ping", 1), Plain("whoami", 1), Plain("nope", 1),
     Plain("ping", maxMessageBytes + 1),
     Line("garbage", 1, Absent, Absent, Absent, Absent, Absent, Absent, Absent, Absent, Absent),
     Line("blank", 0, Absent, Absent, Absent, Absent, Absent, Absent, Absent, Absent, Absent)}

Lines == AuthLines \cup SendLines \cup OtherLines

\* Chunks of several lines: the lines that open such a chunk and those that follow.
PipelineHeads ==
    {AuthLine("a", "kb"), AuthLine("b", "kb"), Plain("ping", 1), SendForged("b", "b")}

PipelinedLines == {AuthLine("b", "kb"), SendForged("b", "b")}

RECURSIVE ChunksOf(_)
ChunksOf(n) ==
    IF n = 1 THEN {<<l>> : l \in PipelineHeads}
    ELSE {Append(s, l) : s \in ChunksOf(n - 1), l \in PipelinedLines}

Chunks == {<<l>> : l \in Lines} \cup UNION {ChunksOf(n) : n \in 2..MaxChunk}

\* Bytes a chunk adds to the buffer: every line and its newline.
RECURSIVE ChunkBytes(_)
ChunkBytes(lines) ==
    IF lines = <<>> THEN 0
    ELSE Head(lines).bytes + (IF Head(lines).syntax = "partial" THEN 0 ELSE 1)
             + ChunkBytes(Tail(lines))

\* Bodies of POST /api/send.
Body(asClient, to, id, type, payload, correlationId) ==
    [asClient |-> asClient, to |-> to, id |-> id, type |-> type, payload |-> payload,
     correlationId |-> correlationId]

Bodies ==
    {Body(p[1], p[2], Absent, Absent, Absent, Absent) :
        p \in {<<"a", "b">>, <<"a", "a">>, <<"b", "x">>, <<"x", "a">>, <<Absent, "a">>}}

\* Requests to POST /api/send: the x-bridge-token header and the body.
Requests ==
    {[token |-> "admin", body |-> b] : b \in Bodies}
        \cup {[token |-> t, body |-> Body("a", "b", Absent, Absent, Absent, Absent)] :
                 t \in {Absent, "guess"}}

\* ------------------------------------------------------------- state
VARIABLES
    conns,              \* connState of every accepted socket, and the socket's status
    activeConnections,  \* Map clientId -> Set of connections
    pendingQueues,      \* Map clientId -> array of envelopes
    inbox,              \* per connection: the envelopes of the `message` frames written to it
    nextSeq,            \* envelopes constructed so far
    origin,             \* per envelope (by seq): who issued the send it comes from
    drained,            \* per connection: the recipient's queue at the moment it authenticated
    offered,            \* per client: the envelopes routed to it, while it had no
                        \* registered connection, since it last authenticated
    issued,             \* per connection: the ids its `send` frames supplied, in the
                        \* order the frames were sent
    acks,               \* per connection: the ids of the `sent` acks written to it
    last,               \* the handler that ran last: its input and what it wrote
    clock,              \* the reading of the system's wall clock (new Date())
    proc,               \* the daemon process: start-up, running, shutting down, exited
    runtimeEvents       \* the in-memory ring of events; it is followed where events are
                        \* pushed one by one (PushRuntimeEvent), and the log lines of
                        \* the socket and HTTP handlers, which nothing modelled here
                        \* reads, are left out

vars == <<conns, activeConnections, pendingQueues, inbox, nextSeq, origin, drained, offered,
          issued, acks, last, clock, proc, runtimeEvents>>

NoOut == [k \in Conns |-> <<>>]

\* What a handler can see or change besides the socket it writes to.
Snapshot(authed, clientId, status, active, queues) ==
    [authed |-> authed, clientId |-> clientId, status |-> status, active |-> active,
     queues |-> queues]

\* ------------------------------------------------------------- helpers of the daemon
randomId(prefix, n) == prefix \o "_" \o ToString(n)

\* socket.write of one frame on connection k.
\* socket.write on a socket that has ended or was destroyed fails: the frame reaches
\* nobody, and the failure is logged and goes no further.
writeFails(k) == conns[k].status # "open"

\* sendJson: the frame is handed to socket.write (out); a write that fails is noted
\* (failed) and changes nothing else.
sendJson(st, k, payload) ==
    [st EXCEPT !.out[k] = Append(@, payload),
               !.failed[k] = IF writeFails(k) THEN Append(@, payload) ELSE @]

\* The map after getQueue(clientId) has created the queue it returns.
getQueue(queues, clientId) ==
    IF clientId \in DOMAIN queues THEN queues ELSE queues @@ (clientId :> <<>>)

registerConnectionMutReplace(active, clientId, c) ==
    IF clientId \notin DOMAIN active THEN active @@ (clientId :> {c})
    ELSE [active EXCEPT ![clientId] = {c}]

registerConnection(active, clientId, c) ==
    IF clientId \notin DOMAIN active THEN active @@ (clientId :> {c})
    ELSE [active EXCEPT ![clientId] = @ \cup {c}]

unregisterConnectionMutNoPrune(active, clientId, c) ==
    IF clientId \notin DOMAIN active THEN active
    ELSE [active EXCEPT ![clientId] = @ \ {c}]

unregisterConnection(active, clientId, c) ==
    IF clientId \notin DOMAIN active THEN active
    ELSE LET set == active[clientId] \ {c}
         IN IF set = {} THEN [k \in DOMAIN active \ {clientId} |-> active[k]]
            ELSE [active EXCEPT ![clientId] = set]

\* The queue after push and the shift that follows it.
enqueueMutNoShift(queue, envelope) == Append(queue, envelope)

enqueueMutDropNewest(queue, envelope) ==
    IF Len(queue) + 1 > queueLimit THEN queue ELSE Append(queue, envelope)

enqueueMutDedup(queue, envelope) ==
    IF \E i \in 1..Len(queue) : queue[i].id = envelope.id THEN queue
    ELSE LET pushed == Append(queue, envelope)
         IN IF Len(pushed) > queueLimit THEN Tail(pushed) ELSE pushed

enqueue(queue, envelope) ==
    LET pushed == Append(queue, envelope)
    IN IF Len(pushed) > queueLimit THEN Tail(pushed) ELSE pushed

MessageFrame(envelope) == [action |-> "message", envelope |-> envelope]

\* The connections deliverEnvelope finds for a recipient.
recipientsOf(active, to) == IF to \in DOMAIN active THEN active[to] ELSE {}

\* The fanout loop: the frame is written to every connection of the set.
fanoutMutFirstOnly(st, recipients, envelope) ==
    LET k == CHOOSE r \in recipients : \A o \in recipients : r <= o
    IN sendJson(st, k, MessageFrame(envelope))

fanoutMutAbortOnFailure(st, recipients, envelope) ==
    LET reached == {k \in recipients : \A o \in recipients : o < k => ~writeFails(o)}
    IN [st EXCEPT !.out = [k \in Conns |->
            IF k \in reached THEN Append(st.out[k], MessageFrame(envelope)) ELSE st.out[k]],
                  !.failed = [k \in Conns |->
            IF k \in reached /\ writeFails(k) THEN Append(st.failed[k], MessageFrame(envelope))
            ELSE st.failed[k]]]

fanout(st, recipients, envelope) ==
    [st EXCEPT !.out = [k \in Conns |->
            IF k \in recipients THEN Append(st.out[k], MessageFrame(envelope)) ELSE st.out[k]],
               !.failed = [k \in Conns |->
            IF k \in recipients /\ writeFails(k) THEN Append(st.failed[k], MessageFrame(envelope))
            ELSE st.failed[k]]]

\* What deliverEnvelope returns when it queues.
queuedResultMutNotQueued == [deliveredTo |-> 0, queued |-> FALSE]

queuedResult == [deliveredTo |-> 0, queued |-> TRUE]

\* deliverEnvelope: the state after it, and the result it returns.
deliverEnvelopeMutAlsoQueue(st, envelope) ==
    LET recipients == recipientsOf(st.active, envelope.to)
        qs == getQueue(st.queues, envelope.to)
        queuedSt == [st EXCEPT !.queues =
                        [qs EXCEPT ![envelope.to] = enqueue(qs[envelope.to], envelope)]]
    IN IF recipients = {} THEN [st |-> queuedSt, routed |-> queuedResult]
       ELSE [st |-> fanout(queuedSt, recipients, envelope),
             routed |-> [deliveredTo |-> Cardinality(recipients), queued |-> FALSE]]

deliverEnvelope(st, envelope) ==
    LET recipients == recipientsOf(st.active, envelope.to)
    IN IF recipients = {} THEN
           LET qs == getQueue(st.queues, envelope.to)
           IN [st |-> [st EXCEPT !.queues =
                          [qs EXCEPT ![envelope.to] = enqueue(qs[envelope.to], envelope)]],
               routed |-> queuedResult]
       ELSE [st |-> fanout(st, recipients, envelope),
             routed |-> [deliveredTo |-> Cardinality(recipients), queued |-> FALSE]]

\* The frames flushQueue writes, in the order it writes them.
flushOrderMutReversed(queue) == [i \in 1..Len(queue) |-> queue[Len(queue) + 1 - i]]

flushOrder(queue) == queue

\* flushQueue: every queued envelope is shifted off the queue and written to the socket.
flushQueueMutLeavesQueue(st, clientId, c) ==
    LET qs == getQueue(st.queues, clientId)
        order == flushOrder(qs[clientId])
    IN [st EXCEPT !.queues = qs,
                  !.out[c] = @ \o [i \in 1..Len(order) |-> MessageFrame(order[i])]]

flushQueue(st, clientId, c) ==
    LET qs == getQueue(st.queues, clientId)
        order == flushOrder(qs[clientId])
    IN [st EXCEPT !.queues = [qs EXCEPT ![clientId] = <<>>],
                  !.out[c] = @ \o [i \in 1..Len(order) |-> MessageFrame(order[i])]]

\* JSON.parse of a line; JsNull stands for null, which is also what a line that is
\* not JSON yields.
JsNull == Line("null", 0, Absent, Absent, Absent, Absent, Absent, Absent, Absent, Absent, Absent)

parseJsonOrNull(line) == IF line.syntax = "object" THEN line ELSE JsNull

\* !msg
IsFalsyMsg(msg) == msg.syntax # "object"

\* The sender the envelope of a `send` frame names.
envelopeFromMutClientInput(msg, clientId) == IF Falsy(msg.from) THEN clientId ELSE msg.from

envelopeFrom(msg, clientId) == clientId

\* The envelope of a `send` frame; seq, the ordinal of its construction, is not on
\* the wire and stands for the envelope's identity.  The time stamps (ts) of the
\* frames other than `message` and `sent` are left out.
nowIso == clock

socketEnvelopeMutTruthyPayload(msg, clientId, seq) ==
    [id |-> IF Falsy(msg.id) THEN randomId("m", seq) ELSE msg.id,
     from |-> envelopeFrom(msg, clientId),
     to |-> msg.to,
     type |-> IF Falsy(msg.type) THEN "message" ELSE msg.type,
     payload |-> IF Falsy(msg.payload) THEN Null ELSE msg.payload,
     correlationId |-> IF Falsy(msg.correlationId) THEN Null ELSE msg.correlationId,
     ts |-> nowIso,
     seq |-> seq]

socketEnvelope(msg, clientId, seq) ==
    [id |-> IF Falsy(msg.id) THEN randomId("m", seq) ELSE msg.id,
     from |-> envelopeFrom(msg, clientId),
     to |-> msg.to,
     type |-> IF Falsy(msg.type) THEN "message" ELSE msg.type,
     payload |-> IF msg.payload = Absent THEN Null ELSE msg.payload,
     correlationId |-> IF Falsy(msg.correlationId) THEN Null ELSE msg.correlationId,
     ts |-> nowIso,
     seq |-> seq]

adminEnvelope(body, seq) ==
    [id |-> IF Falsy(body.id) THEN randomId("admin", seq) ELSE body.id,
     from |-> body.asClient,
     to |-> body.to,
     type |-> IF Falsy(body.type) THEN "message" ELSE body.type,
     payload |-> IF body.payload = Absent THEN Null ELSE body.payload,
     correlationId |-> IF Falsy(body.correlationId) THEN Null ELSE body.correlationId,
     ts |-> nowIso,
     seq |-> seq]

ErrorFrame(code) == [action |-> "error", error |-> code]

\* ------------------------------------------------------------- the "data" handler
\* The running state of one handler: connState of the socket it serves (authed,
\* clientId, status, buffer), the two maps, the frames written so far to every socket
\* (out), the envelopes constructed (created) and the results deliverEnvelope
\* returned (results), whether the handler has returned (stop), and the record of
\* every line handled (trace).
HandlerState(conn, active, queues, seq) ==
    [authed |-> conn.authed, clientId |-> conn.clientId, status |-> conn.status,
     buffer |-> conn.buffer, active |-> active, queues |-> queues, out |-> NoOut,
     failed |-> NoOut,
     nextSeq |-> seq, created |-> <<>>, results |-> <<>>, stop |-> FALSE, trace |-> <<>>]

SnapshotOf(st) == Snapshot(st.authed, st.clientId, st.status, st.active, st.queues)

\* The condition under which a frame reaches the dispatcher of authenticated actions.
gateOpenMutPingBeforeAuth(st, msg) == st.authed \/ msg.action = "ping"

gateOpenMutReauth(st, msg) == st.authed /\ msg.action # "auth"

gateOpen(st, msg) == st.authed

\* auth failure: auth_failed, socket.destroy(), return.
authFailureMutContinue(st, c) ==
    [sendJson(st, c, [action |-> "auth_failed"]) EXCEPT !.status = "destroyed"]

authFailureMutSilent(st, c) == [st EXCEPT !.status = "destroyed", !.stop = TRUE]

authFailure(st, c) ==
    [sendJson(st, c, [action |-> "auth_failed"]) EXCEPT !.status = "destroyed", !.stop = TRUE]

\* auth success: bind, register, auth_ok with the queue depth, flush the queue.
authSuccessMutNoFlush(st, c, clientDef) ==
    LET bound == [st EXCEPT !.authed = TRUE, !.clientId = clientDef.id,
                            !.active = registerConnection(st.active, clientDef.id, c)]
        qs == getQueue(bound.queues, clientDef.id)
    IN sendJson([bound EXCEPT !.queues = qs], c,
                [action |-> "auth_ok", clientId |-> clientDef.id,
                 queued |-> Len(qs[clientDef.id])])

authSuccessMutDepthAfterFlush(st, c, clientDef) ==
    LET bound == [st EXCEPT !.authed = TRUE, !.clientId = clientDef.id,
                            !.active = registerConnection(st.active, clientDef.id, c)]
        flushed == flushQueue(bound, clientDef.id, c)
        frames == flushed.out[c]
    IN [flushed EXCEPT !.out[c] =
           SubSeq(frames, 1, Len(st.out[c]))
               \o <<[action |-> "auth_ok", clientId |-> clientDef.id,
                     queued |-> Len(flushed.queues[clientDef.id])]>>
               \o SubSeq(frames, Len(st.out[c]) + 1, Len(frames))]

authSuccess(st, c, clientDef) ==
    LET bound == [st EXCEPT !.authed = TRUE, !.clientId = clientDef.id,
                            !.active = registerConnection(st.active, clientDef.id, c)]
        qs == getQueue(bound.queues, clientDef.id)
        acked == sendJson([bound EXCEPT !.queues = qs], c,
                          [action |-> "auth_ok", clientId |-> clientDef.id,
                           queued |-> Len(qs[clientDef.id])])
    IN flushQueue(acked, clientDef.id, c)

handleAuth(st, c, msg) ==
    IF msg.clientId \notin ClientIds THEN authFailure(st, c)
    ELSE LET clientDef == clientsById[msg.clientId]
             apiKey == IF Falsy(msg.apiKey) THEN "" ELSE msg.apiKey
         IN IF ~safeCompareHash(apiKey, clientDef.keySha256) THEN authFailure(st, c)
            ELSE authSuccess(st, c, clientDef)

handleSendMutRouteFirst(st, c, msg) ==
    IF Falsy(msg.to) THEN sendJson(st, c, ErrorFrame("missing_to"))
    ELSE IF ~canRoute(st.clientId, msg.to) THEN sendJson(st, c, ErrorFrame("route_not_allowed"))
    ELSE IF msg.to \notin ClientIds THEN sendJson(st, c, ErrorFrame("unknown_target"))
    ELSE LET envelope == socketEnvelope(msg, st.clientId, st.nextSeq + 1)
             d == deliverEnvelope([st EXCEPT !.nextSeq = @ + 1,
                                             !.created = Append(@, envelope)], envelope)
         IN sendJson([d.st EXCEPT !.results = Append(@, d.routed)], c,
                     [action |-> "sent", id |-> envelope.id,
                      deliveredTo |-> d.routed.deliveredTo, queued |-> d.routed.queued,
                      ts |-> envelope.ts])

handleSendMutRoutesDenied(st, c, msg) ==
    IF Falsy(msg.to) THEN sendJson(st, c, ErrorFrame("missing_to"))
    ELSE IF msg.to \notin ClientIds THEN sendJson(st, c, ErrorFrame("unknown_target"))
    ELSE LET envelope == socketEnvelope(msg, st.clientId, st.nextSeq + 1)
             d == deliverEnvelope([st EXCEPT !.nextSeq = @ + 1,
                                             !.created = Append(@, envelope)], envelope)
         IN IF ~canRoute(st.clientId, msg.to)
            THEN sendJson(d.st, c, ErrorFrame("route_not_allowed"))
            ELSE sendJson([d.st EXCEPT !.results = Append(@, d.routed)], c,
                          [action |-> "sent", id |-> envelope.id,
                           deliveredTo |-> d.routed.deliveredTo, queued |-> d.routed.queued,
                           ts |-> envelope.ts])

handleSendMutAckFirst(st, c, msg) ==
    IF Falsy(msg.to) THEN sendJson(st, c, ErrorFrame("missing_to"))
    ELSE IF msg.to \notin ClientIds THEN sendJson(st, c, ErrorFrame("unknown_target"))
    ELSE IF ~canRoute(st.clientId, msg.to) THEN sendJson(st, c, ErrorFrame("route_not_allowed"))
    ELSE LET envelope == socketEnvelope(msg, st.clientId, st.nextSeq + 1)
             made == [st EXCEPT !.nextSeq = @ + 1, !.created = Append(@, envelope)]
             routed == deliverEnvelope(made, envelope).routed
             acked == sendJson(made, c,
                               [action |-> "sent", id |-> envelope.id,
                                deliveredTo |-> routed.deliveredTo, queued |-> routed.queued,
                                ts |-> envelope.ts])
         IN [deliverEnvelope(acked, envelope).st EXCEPT !.results = Append(@, routed)]

handleSend(st, c, msg) ==
    IF Falsy(msg.to) THEN sendJson(st, c, ErrorFrame("missing_to"))
    ELSE IF msg.to \notin ClientIds THEN sendJson(st, c, ErrorFrame("unknown_target"))
    ELSE IF ~canRoute(st.clientId, msg.to) THEN sendJson(st, c, ErrorFrame("route_not_allowed"))
    ELSE LET envelope == socketEnvelope(msg, st.clientId, st.nextSeq + 1)
             d == deliverEnvelope([st EXCEPT !.nextSeq = @ + 1,
                                             !.created = Append(@, envelope)], envelope)
         IN sendJson([d.st EXCEPT !.results = Append(@, d.routed)], c,
                     [action |-> "sent", id |-> envelope.id,
                      deliveredTo |-> d.routed.deliveredTo, queued |-> d.routed.queued,
                      ts |-> envelope.ts])

\* Buffer.byteLength(line) > config.maxMessageBytes
exceedsLimitMutAtLimit(line) == line.bytes >= maxMessageBytes

exceedsLimit(line) == line.bytes > maxMessageBytes

\* A line longer than the frame limit: message_too_large, continue.
tooLargeMutDestroy(st, c) ==
    [sendJson(st, c, ErrorFrame("message_too_large")) EXCEPT !.status = "destroyed", !.stop = TRUE]

tooLarge(st, c) == sendJson(st, c, ErrorFrame("message_too_large"))

\* One pass of the while loop over a line the buffer held.
\* The end of the loop's body: no branch took the frame.
unknownActionMutDestroy(st, c) ==
    [sendJson(st, c, ErrorFrame("unknown_action")) EXCEPT !.status = "destroyed", !.stop = TRUE]

unknownAction(st, c) == sendJson(st, c, ErrorFrame("unknown_action"))

handleLine(st, c, line) ==
    IF line.syntax = "blank" THEN st
    ELSE IF exceedsLimit(line) THEN tooLarge(st, c)
    ELSE LET msg == parseJsonOrNull(line)
         IN IF IsFalsyMsg(msg) THEN sendJson(st, c, ErrorFrame("invalid_json"))
            ELSE IF ~gateOpen(st, msg) THEN
                     IF msg.action # "auth" THEN sendJson(st, c, ErrorFrame("auth_required"))
                     ELSE handleAuth(st, c, msg)
            ELSE IF msg.action = "ping" THEN sendJson(st, c, [action |-> "pong"])
            ELSE IF msg.action = "send" THEN handleSend(st, c, msg)
            ELSE IF msg.action = "whoami" THEN
                     sendJson(st, c, [action |-> "whoami", clientId |-> st.clientId,
                                      canSendTo |-> clientsById[st.clientId].canSendTo])
            ELSE unknownAction(st, c)

\* What a step wrote, constructed and returned, given the handler state before and
\* after it.
StepRecord(src, input, before, after) ==
    [src |-> src, line |-> input, pre |-> SnapshotOf(before), post |-> SnapshotOf(after),
     written |-> [k \in Conns |->
                     SubSeq(after.out[k], Len(before.out[k]) + 1, Len(after.out[k]))],
     failed |-> [k \in Conns |->
                    SubSeq(after.failed[k], Len(before.failed[k]) + 1, Len(after.failed[k]))],
     created |-> SubSeq(after.created, Len(before.created) + 1, Len(after.created)),
     results |-> SubSeq(after.results, Len(before.results) + 1, Len(after.results))]

processLine(st, c, line) ==
    LET after == handleLine(st, c, line)
    IN [after EXCEPT !.trace = Append(@, StepRecord("socket", line, st, after))]

\* The while loop: every line in turn, until the handler returns; the lines it has
\* not taken stay in the buffer.
RECURSIVE processLinesMutLastFirst(_, _, _)
processLinesMutLastFirst(st, c, lines) ==
    IF lines = <<>> \/ st.stop \/ lines[Len(lines)].syntax = "partial"
    THEN [st EXCEPT !.buffer = ChunkBytes(lines)]
    ELSE processLinesMutLastFirst(processLine(st, c, lines[Len(lines)]), c,
                                  SubSeq(lines, 1, Len(lines) - 1))

RECURSIVE processLines(_, _, _)
processLines(st, c, lines) ==
    IF lines = <<>> \/ st.stop \/ Head(lines).syntax = "partial"
    THEN [st EXCEPT !.buffer = ChunkBytes(lines)]
    ELSE processLines(processLine(st, c, Head(lines)), c, Tail(lines))

\* socket.on("data"): the chunk is appended to the buffer; a buffer over twice the
\* frame limit ends the connection, else the lines are processed.
\* connState.buffer += chunk: the lines the buffer holds then; the bytes it held
\* before are the start of the first of them.
joinBuffer(buffer, lines) == [lines EXCEPT ![1].bytes = @ + buffer]

onDataMutCheckAfter(st, c, lines) ==
    LET done == processLines(st, c, joinBuffer(st.buffer, lines))
    IN IF ~done.stop /\ done.buffer > maxMessageBytes * 2
       THEN [sendJson(done, c, ErrorFrame("buffer_exceeded")) EXCEPT
                !.status = "destroyed", !.stop = TRUE]
       ELSE done

onData(st, c, lines) ==
    LET bytes == st.buffer + ChunkBytes(lines)
    IN IF bytes > maxMessageBytes * 2
       THEN [sendJson(st, c, ErrorFrame("buffer_exceeded")) EXCEPT
                !.status = "destroyed", !.buffer = bytes, !.stop = TRUE]
       ELSE processLines(st, c, joinBuffer(st.buffer, lines))

Envelopes(frames) ==
    LET messages == SelectSeq(frames, LAMBDA f : f.action = "message")
    IN [i \in 1..Len(messages) |-> messages[i].envelope]

NoResponse == [code |-> 0, ok |-> FALSE, error |-> Absent]

\* History kept for the properties; the daemon holds none of it.
QueueIn(queues, clientId) == IF clientId \in DOMAIN queues THEN queues[clientId] ELSE <<>>

\* A step of the trace in which a connection authenticated.
IsAuthSuccess(t) == t.src = "socket" /\ ~t.pre.authed /\ t.post.authed

\* Who issued the send of a step that constructed an envelope: the connection and the
\* client id authentication bound to it (or the asClient of the HTTP body), and the
\* sender the input itself named.
OriginOf(t, c) ==
    [src |-> t.src, conn |-> c,
     identity |-> IF t.src = "socket" THEN t.pre.clientId ELSE t.line.asClient,
     authed |-> t.src = "http" \/ t.pre.authed,
     claimed |-> IF t.src = "socket" THEN t.line.from ELSE Absent,
     correlationId |-> t.line.correlationId,
     ts |-> t.created[1].ts]

RECURSIVE Origins(_, _)
Origins(trace, c) ==
    IF trace = <<>> THEN <<>>
    ELSE (IF Head(trace).created # <<>> THEN <<OriginOf(Head(trace), c)>> ELSE <<>>)
             \o Origins(Tail(trace), c)

RECURSIVE Offered(_, _)
Offered(off, trace) ==
    IF trace = <<>> THEN off
    ELSE LET t == Head(trace)
             afterAuth == IF IsAuthSuccess(t) THEN [off EXCEPT ![t.post.clientId] = <<>>] ELSE off
             afterSend ==
                 IF t.created # <<>> /\ recipientsOf(t.pre.active, t.created[1].to) = {}
                 THEN [afterAuth EXCEPT ![t.created[1].to] = Append(@, t.created[1])]
                 ELSE afterAuth
         IN Offered(afterSend, Tail(trace))

RECURSIVE DrainedBy(_, _)
DrainedBy(before, trace) ==
    IF trace = <<>> THEN before
    ELSE DrainedBy(IF IsAuthSuccess(Head(trace))
                   THEN QueueIn(Head(trace).pre.queues, Head(trace).post.clientId)
                   ELSE before, Tail(trace))

\* The ids the `send` frames of a chunk supply.
IssuedIn(op, input) ==
    IF op # "data" THEN <<>>
    ELSE LET sends == SelectSeq(input, LAMBDA l : l.syntax = "object" /\ l.action = "send"
                                                    /\ ~Falsy(l.id))
         IN [i \in 1..Len(sends) |-> sends[i].id]

AckIds(frames) ==
    LET sent == SelectSeq(frames, LAMBDA f : f.action = "sent")
    IN [i \in 1..Len(sent) |-> sent[i].id]

\* The state a finished handler leaves.
Commit(op, c, input, st, res) ==
    /\ proc.phase \in {"running", "stopping"}
    /\ UNCHANGED <<clock, proc, runtimeEvents>>
    /\ activeConnections' = st.active
    /\ pendingQueues' = st.queues
    /\ inbox' = [k \in Conns |-> inbox[k] \o Envelopes(st.out[k])]
    /\ nextSeq' = st.nextSeq
    /\ origin' = origin \o Origins(st.trace, c)
    /\ drained' = [k \in Conns |-> IF k = c THEN DrainedBy(drained[k], st.trace) ELSE drained[k]]
    /\ offered' = Offered(offered, st.trace)
    /\ issued' = [k \in Conns |-> IF k = c THEN issued[k] \o IssuedIn(op, input) ELSE issued[k]]
    /\ acks' = [k \in Conns |-> acks[k] \o AckIds(st.out[k])]
    /\ last' = [op |-> op, conn |-> c, input |-> input, out |-> st.out,
                trace |-> st.trace, res |-> res, offeredBefore |-> offered]

NoConn == [status |-> "none", authed |-> FALSE, clientId |-> Null, buffer |-> 0]

\* The process once both servers listen: it has no exit code yet (NoCode).  config is the
\* content of the config file when the process is followed from its start, and
\* FromRegistry when it is taken up running with the registry `clients`.
NoCode == -1

FromRegistry == [file |-> "none", clients |-> [isArray |-> FALSE, items |-> <<>>]]

Running == [phase |-> "running", code |-> NoCode, config |-> FromRegistry, timer |-> FALSE]

Init ==
    /\ conns = [c \in Conns |-> NoConn]
    /\ activeConnections = <<>>
    /\ pendingQueues = <<>>
    /\ inbox = [c \in Conns |-> <<>>]
    /\ nextSeq = 0
    /\ origin = <<>>
    /\ drained = [c \in Conns |-> <<>>]
    /\ offered = [id \in ClientIds |-> <<>>]
    /\ issued = [c \in Conns |-> <<>>]
    /\ acks = [c \in Conns |-> <<>>]
    /\ last = [op |-> "idle", conn |-> 0, input |-> <<>>, out |-> NoOut, trace |-> <<>>,
               res |-> NoResponse, offeredBefore |-> [id \in ClientIds |-> <<>>]]
    /\ clock = 0
    /\ runtimeEvents = <<>>
    /\ proc = Running

Idle == last.op = "idle"

\* The handler returns to the event loop, which then takes the next event; the
\* record of what the handler did is dropped.
Return ==
    /\ ~Idle
    /\ last' = [op |-> "idle", conn |-> 0, input |-> <<>>, out |-> NoOut, trace |-> <<>>,
                res |-> NoResponse, offeredBefore |-> offered]
    /\ UNCHANGED <<conns, activeConnections, pendingQueues, inbox, nextSeq, origin, drained,
                   offered, issued, acks, clock, proc, runtimeEvents>>

\* net.createServer callback: a new connState for the accepted socket.
Accept(c) ==
    /\ Idle
    /\ proc.phase = "running"
    /\ conns[c].status = "none"
    /\ \A k \in Conns : k < c => conns[k].status # "none"
    /\ conns' = [conns EXCEPT ![c] = [NoConn EXCEPT !.status = "open"]]
    /\ Commit("accept", c, <<>>, HandlerState(conns[c], activeConnections, pendingQueues, nextSeq),
              NoResponse)

Data(c, lines) ==
    /\ Idle
    /\ conns[c].status = "open"
    /\ conns[c].buffer > 0 => Head(lines).syntax # "blank"
    /\ LET st == onData(HandlerState(conns[c], activeConnections, pendingQueues, nextSeq),
                        c, lines)
       IN /\ st.nextSeq <= MaxEnvelopes
          /\ conns' = [conns EXCEPT ![c] = [status |-> st.status, authed |-> st.authed,
                                            clientId |-> st.clientId, buffer |-> st.buffer]]
          /\ Commit("data", c, joinBuffer(conns[c].buffer, lines), st, NoResponse)

\* The peer closes its end: the socket reads no more, its "close" event is pending.
PeerEnd(c) ==
    /\ Idle
    /\ conns[c].status = "open"
    /\ conns' = [conns EXCEPT ![c].status = "ended"]
    /\ Commit("end", c, <<>>, HandlerState(conns[c], activeConnections, pendingQueues, nextSeq),
              NoResponse)

\* socket.on("close").
Close(c) ==
    /\ Idle
    /\ conns[c].status \in {"ended", "destroyed"}
    /\ conns' = [conns EXCEPT ![c].status = "closed"]
    /\ LET st0 == HandlerState(conns[c], activeConnections, pendingQueues, nextSeq)
           st == IF conns[c].clientId # Null
                 THEN [st0 EXCEPT !.active = unregisterConnection(@, conns[c].clientId, c)]
                 ELSE st0
       IN Commit("close", c, <<>>, st, NoResponse)

\* ------------------------------------------------------------- HTTP
isAuthorizedHttp(token) ==
    IF adminTokenSha256 = <<>> THEN FALSE
    ELSE IF Falsy(token) THEN FALSE
    ELSE safeCompareHash(token, adminTokenSha256)

HttpState == HandlerState([NoConn EXCEPT !.status = "http"], activeConnections,
                          pendingQueues, nextSeq)

\* routeAdminSend: the state after it and the result it returns.
routeAdminSendMutNeedsLive(st, body) ==
    IF Falsy(body.asClient) \/ Falsy(body.to)
    THEN [st |-> st, res |-> [code |-> 400, ok |-> FALSE, error |-> "asClient_and_to_required"]]
    ELSE IF body.asClient \notin ClientIds \/ body.to \notin ClientIds
    THEN [st |-> st, res |-> [code |-> 400, ok |-> FALSE, error |-> "unknown_client"]]
    ELSE IF ~canRoute(body.asClient, body.to) \/ recipientsOf(st.active, body.asClient) = {}
    THEN [st |-> st, res |-> [code |-> 400, ok |-> FALSE, error |-> "route_not_allowed"]]
    ELSE LET envelope == adminEnvelope(body, st.nextSeq + 1)
             d == deliverEnvelope([st EXCEPT !.nextSeq = @ + 1,
                                             !.created = Append(@, envelope)], envelope)
         IN [st |-> [d.st EXCEPT !.results = Append(@, d.routed)],
             res |-> [code |-> 200, ok |-> TRUE, error |-> Absent, envelope |-> envelope,
                      routed |-> d.routed]]

routeAdminSend(st, body) ==
    IF Falsy(body.asClient) \/ Falsy(body.to)
    THEN [st |-> st, res |-> [code |-> 400, ok |-> FALSE, error |-> "asClient_and_to_required"]]
    ELSE IF body.asClient \notin ClientIds \/ body.to \notin ClientIds
    THEN [st |-> st, res |-> [code |-> 400, ok |-> FALSE, error |-> "unknown_client"]]
    ELSE IF ~canRoute(body.asClient, body.to)
    THEN [st |-> st, res |-> [code |-> 400, ok |-> FALSE, error |-> "route_not_allowed"]]
    ELSE LET envelope == adminEnvelope(body, st.nextSeq + 1)
             d == deliverEnvelope([st EXCEPT !.nextSeq = @ + 1,
                                             !.created = Append(@, envelope)], envelope)
         IN [st |-> [d.st EXCEPT !.results = Append(@, d.routed)],
             res |-> [code |-> 200, ok |-> TRUE, error |-> Absent, envelope |-> envelope,
                      routed |-> d.routed]]

\* A request: its method, the segments of url.pathname ("/api/send" is
\* <<"api", "send">>, "/" is <<>>), the `id` of its query, the x-bridge-token header
\* and its parsed body.
HttpRequest(method, path, id, token, body) ==
    [method |-> method, path |-> path, id |-> id, token |-> token, body |-> body]

\* url.pathname.startsWith("/api/")
IsApiPath(path) == Len(path) >= 2 /\ path[1] = "api"

Response(code, ok, error) == [code |-> code, ok |-> ok, error |-> error]

\* The agents whose avatar file a snapshot build has registered.
missionAvatarPaths == {"main"}

serveAgentAvatar(req) ==
    IF req.method # "GET" THEN Response(405, FALSE, "method_not_allowed")
    ELSE IF req.id \notin missionAvatarPaths THEN Response(404, FALSE, "avatar_not_found")
    ELSE Response(200, TRUE, Absent)

\* buildStatus: getQueue creates the queue of every client that has none.
RECURSIVE ensureQueues(_, _)
ensureQueues(queues, i) ==
    IF i > Len(clients) THEN queues ELSE ensureQueues(getQueue(queues, clients[i].id), i + 1)

buildStatusMutEmptiesQueues(st) ==
    LET qs == [id \in ClientIds |-> <<>>]
    IN [st |-> [st EXCEPT !.queues = qs],
        res |-> [code |-> 200, ok |-> TRUE, error |-> Absent,
                 active |-> [id \in DOMAIN st.active |-> Cardinality(st.active[id])],
                 queued |-> [id \in ClientIds |-> Len(QueueIn(st.queues, id))]]]

buildStatus(st) ==
    LET qs == ensureQueues(st.queues, 1)
    IN [st |-> [st EXCEPT !.queues = qs],
        res |-> [code |-> 200, ok |-> TRUE, error |-> Absent,
                 active |-> [id \in DOMAIN st.active |-> Cardinality(st.active[id])],
                 queued |-> [id \in ClientIds |-> Len(qs[id])]]]

\* The request handler of the HTTP server: the state after it and its response.
httpHandler(st, req) ==
    IF req.path = <<"health">> THEN [st |-> st, res |-> Response(200, TRUE, Absent)]
    ELSE IF req.path = <<>> THEN [st |-> st, res |-> Response(200, TRUE, Absent)]
    ELSE IF req.path = <<"favicon.ico">> THEN [st |-> st, res |-> Response(204, TRUE, Absent)]
    ELSE IF req.path = <<"api", "mission-control", "avatar">> THEN
        IF Falsy(req.id) THEN [st |-> st, res |-> Response(400, FALSE, "id_required")]
        ELSE [st |-> st, res |-> serveAgentAvatar(req)]
    ELSE IF ~IsApiPath(req.path) THEN [st |-> st, res |-> Response(404, FALSE, "not_found")]
    ELSE IF ~isAuthorizedHttp(req.token) THEN
        [st |-> st, res |-> Response(401, FALSE, "unauthorized")]
    ELSE IF req.method = "GET" /\ req.path = <<"api", "status">> THEN buildStatus(st)
    ELSE IF req.method = "POST" /\ req.path = <<"api", "send">> THEN
        LET r == routeAdminSend(st, req.body)
        IN [st |-> [r.st EXCEPT !.trace = <<StepRecord("http", req.body, st, r.st)>>],
            res |-> r.res]
    ELSE IF req.method = "GET" /\ req.path = <<"api", "mission-control", "snapshot">> THEN
        [st |-> st, res |-> Response(200, TRUE, Absent)]
    ELSE [st |-> st, res |-> Response(404, FALSE, "not_found")]

Request(req) ==
    /\ Idle
    /\ UNCHANGED conns
    /\ LET r == httpHandler(HttpState, req)
       IN /\ r.st.nextSeq <= MaxEnvelopes
          /\ Commit(IF req.method = "POST" /\ req.path = <<"api", "send">>
                    THEN "api_send" ELSE "http", 0, req, r.st, r.res)

\* POST /api/send.
ApiSend(token, body) == Request(HttpRequest("POST", <<"api", "send">>, Absent, token, body))

Next ==
    \/ \E c \in Conns : Accept(c)
    \/ \E c \in Conns, lines \in Chunks : Data(c, lines)
    \/ \E c \in Conns : PeerEnd(c)
    \/ \E c \in Conns : Close(c)
    \/ \E req \in Requests : ApiSend(req.token, req.body)
    \/ Return

Spec == Init /\ [][Next]_vars

\* ------------------------------------------------------------- sends that supply fields
\* Clients that supply the id and the correlationId of their sends; "" is a
\* correlationId that JavaScript takes for false, as it does 0 and false.
SendWith(to, id, correlationId) ==
    Line("object", 1, "send", Absent, Absent, to, Absent, id, Absent, Absent, correlationId)

FieldSends == {SendWith("b", "i1", "x1"), SendWith("b", "i2", "")}

\* The reply to i1: a send to "a" with the correlationId i1 carried.
FieldReply == SendWith("a", Absent, "x1")

FieldChunks ==
    {<<l>> : l \in {AuthLine("a", "ka"), AuthLine("b", "kb"), FieldReply} \cup FieldSends}
        \cup {<<l, m>> : l, m \in FieldSends}

FieldRequests == {[token |-> "admin", body |-> Body("a", "b", Absent, Absent, Absent, "")]}

Range(seq) == {seq[i] : i \in 1..Len(seq)}

\* A chunk whose sends supply ids no send has supplied before.
DataFresh(c, lines) ==
    /\ LET ids == IssuedIn("data", lines)
       IN /\ Cardinality(Range(ids)) = Len(ids)
          /\ \A k \in Conns : Range(ids) \cap Range(issued[k]) = {}
    /\ Data(c, lines)

NextFields ==
    \/ \E c \in Conns : Accept(c)
    \/ \E c \in Conns, lines \in FieldChunks : DataFresh(c, lines)
    \/ \E c \in Conns : PeerEnd(c)
    \/ \E c \in Conns : Close(c)
    \/ \E req \in FieldRequests : ApiSend(req.token, req.body)
    \/ Return

SpecFields == Init /\ [][NextFields]_vars

\* ------------------------------------------------------------- frames and chunks
\* Frames at and around the frame limit, and chunks that end inside a frame.
FrameSizes == {1, maxMessageBytes - 1, maxMessageBytes, maxMessageBytes + 1}

Partial(bytes) ==
    Line("partial", bytes, Absent, Absent, Absent, Absent, Absent, Absent, Absent, Absent, Absent)

FrameLines ==
    {Plain("ping", n) : n \in FrameSizes}
        \cup {AuthLine("b", "kb"),
              Line("blank", 0, Absent, Absent, Absent, Absent, Absent, Absent, Absent, Absent, Absent)}

Partials == {Partial(n) : n \in {1, maxMessageBytes, maxMessageBytes * 2}}

FrameChunks ==
    {<<l>> : l \in FrameLines \cup Partials}
        \cup {<<l, m>> : l \in FrameLines, m \in FrameLines \cup Partials}

NextFrames ==
    \/ \E c \in Conns : Accept(c)
    \/ \E c \in Conns, lines \in FrameChunks : Data(c, lines)
    \/ \E c \in Conns : PeerEnd(c)
    \/ \E c \in Conns : Close(c)
    \/ Return

SpecFrames == Init /\ [][NextFrames]_vars

\* ------------------------------------------------------------- the HTTP plane
NoBody == Body(Absent, Absent, Absent, Absent, Absent, Absent)

AvatarPath == <<"api", "mission-control", "avatar">>

\* Requests by method, path, query id and body; the token is added below.
HttpTargets ==
    {HttpRequest("GET", p, Absent, Absent, NoBody) :
        p \in {<<"health">>, <<>>, <<"favicon.ico">>, <<"nope">>, <<"api">>, AvatarPath,
               <<"api", "mission-control", "snapshot">>, <<"api", "status">>,
               <<"api", "nope">>, <<"api", "send">>}}
      \cup {HttpRequest("GET", AvatarPath, id, Absent, NoBody) : id \in {"main", "ghost"}}
      \cup {HttpRequest("POST", AvatarPath, "main", Absent, NoBody)}
      \cup {HttpRequest("POST", <<"api", "send">>, Absent, Absent,
                        Body(p[1], p[2], Absent, Absent, Absent, Absent)) :
               p \in {<<"a", "b">>, <<"a", "a">>}}

HttpRequests == {[r EXCEPT !.token = t] : r \in HttpTargets, t \in {Absent, "guess", "admin"}}

HttpChunks == {<<AuthLine("a", "ka")>>, <<AuthLine("b", "kb")>>, <<AuthLine("b", "ka")>>}

NextHttp ==
    \/ \E c \in Conns : Accept(c)
    \/ \E c \in Conns, lines \in HttpChunks : Data(c, lines)
    \/ \E c \in Conns : PeerEnd(c)
    \/ \E c \in Conns : Close(c)
    \/ \E req \in HttpRequests : Request(req)
    \/ Return

SpecHttp == Init /\ [][NextHttp]_vars

\* ------------------------------------------------------------- properties
Steps == {last.trace[i] : i \in 1..Len(last.trace)}

\* The connection a step's replies go to (none for an HTTP request).
Sender == last.conn

\* The registry's answer, read off the allowlists.
Permitted(S, T) ==
    /\ S \in ClientIds
    /\ ("*" \in clientsById[S].canSendTo \/ T \in clientsById[S].canSendTo)

\* A step whose line got as far as the dispatcher: not blank, within the frame
\* limit, a JSON object.
IsParsed(t) ==
    /\ t.src = "socket"
    /\ t.line.syntax = "object"
    /\ t.line.bytes <= maxMessageBytes

IsSendFrame(t) == IsParsed(t) /\ t.pre.authed /\ t.line.action = "send"

Registered(active) == UNION {active[id] : id \in DOMAIN active}

LastN(seq, n) == IF Len(seq) <= n THEN seq ELSE SubSeq(seq, Len(seq) - n + 1, Len(seq))

MessageFrames(envelopes) == [i \in 1..Len(envelopes) |-> MessageFrame(envelopes[i])]

SentAck(e, deliveredTo, queued) ==
    [action |-> "sent", id |-> e.id, deliveredTo |-> deliveredTo, queued |-> queued,
     ts |-> e.ts]

\* C1: every `message` frame written to a connection carries, as envelope.from, the
\* client id that authentication bound to the connection whose `send` produced the
\* envelope (the asClient of the body for an HTTP send), whatever sender the frame
\* itself named.
C1_FromIsAuthenticatedSender ==
    \A k \in Conns : \A i \in 1..Len(inbox[k]) :
        LET e == inbox[k][i]
        IN /\ e.seq \in 1..Len(origin)
           /\ origin[e.seq].authed
           /\ origin[e.seq].identity \in ClientIds
           /\ e.from = origin[e.seq].identity

\* A delivered envelope whose `send` frame named another sender than the one bound
\* to its connection.
C1_Witness ==
    \E k \in Conns : \E i \in 1..Len(inbox[k]) :
        LET o == origin[inbox[k][i].seq]
        IN o.src = "socket" /\ o.claimed # Absent /\ o.claimed # o.identity

\* C2: a `send` of an authenticated connection of S to a registered client T that S's
\* allowlist does not permit is answered with route_not_allowed, constructs no
\* envelope, leaves every queue as it was and writes to no other connection; and every
\* envelope delivered or queued has a (from, to) pair the registry permits.
C2_AclEnforced ==
    /\ \A t \in Steps :
           (IsSendFrame(t) /\ t.line.to \in ClientIds /\ ~Permitted(t.pre.clientId, t.line.to)) =>
               /\ t.written[Sender] = <<ErrorFrame("route_not_allowed")>>
               /\ t.created = <<>>
               /\ t.post.queues = t.pre.queues
               /\ \A k \in Conns \ {Sender} : t.written[k] = <<>>
    /\ \A k \in Conns : \A i \in 1..Len(inbox[k]) : Permitted(inbox[k][i].from, inbox[k][i].to)
    /\ \A id \in DOMAIN pendingQueues : \A i \in 1..Len(pendingQueues[id]) :
           Permitted(pendingQueues[id][i].from, pendingQueues[id][i].to)

\* A denied send while its target has another connection registered.
C2_Witness ==
    \E t \in Steps :
        /\ IsSendFrame(t) /\ t.line.to \in ClientIds
        /\ ~Permitted(t.pre.clientId, t.line.to)
        /\ recipientsOf(t.pre.active, t.line.to) \ {Sender} # {}

\* C3: on an authenticated connection, every envelope that was in the recipient's
\* queue when the connection authenticated is written before any envelope that was
\* not.
C3_DrainedBeforeLater ==
    \A c \in Conns : \A i \in 1..Len(inbox[c]) :
        (\A j \in 1..Len(drained[c]) : drained[c][j].seq # inbox[c][i].seq) =>
            \A j \in 1..Len(drained[c]) : \E h \in 1..(i - 1) : inbox[c][h] = drained[c][j]

\* A connection that drained a queue and was later written a fresh envelope.
C3_Witness ==
    \E c \in Conns : drained[c] # <<>> /\ Len(inbox[c]) > Len(drained[c])

\* C4: an envelope routed to a client with no registered connection is acknowledged
\* with deliveredTo 0, queued true; the queue of a client holds, in the order they were
\* accepted, the envelopes routed to it since it last authenticated (the last
\* queueLimit of them); and a connection that authenticates is written auth_ok and
\* then exactly the queued envelopes in that order, leaving the queue empty.
C4_QueueThenDrain ==
    /\ \A id \in ClientIds : QueueIn(pendingQueues, id) = LastN(offered[id], queueLimit)
    /\ \A t \in Steps :
           /\ (t.created # <<>> /\ recipientsOf(t.pre.active, t.created[1].to) = {}) =>
                  t.results = <<[deliveredTo |-> 0, queued |-> TRUE]>>
           /\ IsAuthSuccess(t) =>
                  /\ t.written[Sender] # <<>>
                  /\ Head(t.written[Sender]).action = "auth_ok"
                  /\ Tail(t.written[Sender])
                        = MessageFrames(QueueIn(t.pre.queues, t.post.clientId))
                  /\ QueueIn(t.post.queues, t.post.clientId) = <<>>

\* A connection authenticates and drains envelopes that a socket and the HTTP plane
\* queued.
C4_Witness ==
    \E t \in Steps :
        /\ IsAuthSuccess(t)
        /\ LET q == QueueIn(t.pre.queues, t.post.clientId)
           IN \E i, j \in 1..Len(q) : i < j /\ origin[q[i].seq].src # origin[q[j].seq].src

\* C5: no queue is longer than the queue limit.
C5_QueueBounded ==
    \A id \in DOMAIN pendingQueues : Len(pendingQueues[id]) <= queueLimit

\* A full queue that has already dropped an envelope.
C5_Witness ==
    \E id \in DOMAIN pendingQueues :
        Len(pendingQueues[id]) = queueLimit /\ Len(offered[id]) > queueLimit

\* The envelopes routed to a client, while it had no registered connection, before
\* step i of the last handler.
OfferedBefore(i) == Offered(last.offeredBefore, SubSeq(last.trace, 1, i - 1))

\* C6: an envelope enqueued on a full queue removes the oldest and is kept at the
\* tail; its sender gets the usual ack (deliveredTo 0, queued true) and nothing else is
\* written; and a connection that authenticates after more than queueLimit envelopes
\* were routed to its offline client is written exactly the last queueLimit of them, in
\* the order they were sent.
C6_DropOldest ==
    \A i \in 1..Len(last.trace) :
        LET t == last.trace[i]
        IN /\ (/\ t.created # <<>>
               /\ recipientsOf(t.pre.active, t.created[1].to) = {}
               /\ Len(QueueIn(t.pre.queues, t.created[1].to)) = queueLimit) =>
                  LET e == t.created[1]
                  IN /\ t.post.queues[e.to] = Append(Tail(t.pre.queues[e.to]), e)
                     /\ \A k \in Conns :
                            t.written[k] = IF t.src = "socket" /\ k = Sender
                                           THEN <<SentAck(e, 0, TRUE)>> ELSE <<>>
                     /\ t.src = "http" =>
                            /\ last.res.ok
                            /\ last.res.routed = [deliveredTo |-> 0, queued |-> TRUE]
           /\ (IsAuthSuccess(t) /\ Len(OfferedBefore(i)[t.post.clientId]) > queueLimit) =>
                  Tail(t.written[Sender])
                      = MessageFrames(LastN(OfferedBefore(i)[t.post.clientId], queueLimit))

\* A connection authenticates after its client's queue has overflowed.
C6_Witness ==
    \E i \in 1..Len(last.trace) :
        /\ IsAuthSuccess(last.trace[i])
        /\ Len(OfferedBefore(i)[last.trace[i].post.clientId]) > queueLimit

RoutedOrQueued(r) ==
    \/ r.deliveredTo >= 1 /\ r.queued = FALSE
    \/ r.deliveredTo = 0 /\ r.queued = TRUE

\* C7: every `sent` ack and every /api/send response reports either deliveredTo >= 1
\* with queued false, or deliveredTo 0 with queued true.
C7_DeliversOrQueues ==
    /\ \A k \in Conns : \A i \in 1..Len(last.out[k]) :
           last.out[k][i].action = "sent" => RoutedOrQueued(last.out[k][i])
    /\ last.res.ok => RoutedOrQueued(last.res.routed)
    /\ \A t \in Steps : \A i \in 1..Len(t.results) : RoutedOrQueued(t.results[i])

\* An HTTP send answered with a queued result, after a socket send was acknowledged
\* as delivered.
C7_Witness ==
    /\ last.op = "api_send" /\ last.res.ok
    /\ last.res.routed = [deliveredTo |-> 0, queued |-> TRUE]
    /\ \E k \in Conns : inbox[k] # <<>>

\* C8: an envelope routed while its recipient has k >= 1 registered connections is
\* written once, as a `message` frame, to each of them and to no other connection,
\* nothing is enqueued, and the result is deliveredTo = k, queued = false.
C8_Fanout ==
    \A t \in Steps :
        (t.created # <<>> /\ recipientsOf(t.pre.active, t.created[1].to) # {}) =>
            LET e == t.created[1]
                R == recipientsOf(t.pre.active, e.to)
            IN /\ \A k \in Conns :
                      SelectSeq(t.written[k], LAMBDA f : f.action = "message")
                          = IF k \in R THEN <<MessageFrame(e)>> ELSE <<>>
               /\ t.post.queues = t.pre.queues
               /\ t.results = <<[deliveredTo |-> Cardinality(R), queued |-> FALSE]>>

\* An envelope routed to a client with two registered connections.
C8_Witness ==
    \E t \in Steps :
        t.created # <<>> /\ Cardinality(recipientsOf(t.pre.active, t.created[1].to)) = 2

\* C9: on a connection that has not authenticated, a parsed frame whose action is not
\* `auth` is answered with auth_required and nothing else is written; the connection
\* stays unauthenticated, unbound and unregistered, no envelope is constructed and no
\* queue changes.
C9_AuthRequired ==
    \A t \in Steps :
        (IsParsed(t) /\ ~t.pre.authed /\ t.line.action # "auth") =>
            /\ \A k \in Conns :
                   t.written[k] = IF k = Sender THEN <<ErrorFrame("auth_required")>> ELSE <<>>
            /\ ~t.post.authed
            /\ t.post.clientId = Null
            /\ t.post.status = "open"
            /\ t.post.active = t.pre.active
            /\ Sender \notin Registered(t.post.active)
            /\ t.created = <<>>
            /\ t.post.queues = t.pre.queues

\* A `send` on a connection that has not authenticated, while its target has a
\* registered connection.
C9_Witness ==
    \E t \in Steps :
        /\ IsParsed(t) /\ ~t.pre.authed /\ t.line.action = "send"
        /\ t.line.to \in DOMAIN t.pre.active

\* The key an `auth` frame presents.
PresentedKey(line) == IF Falsy(line.apiKey) THEN "" ELSE line.apiKey

IsBadAuth(t) ==
    /\ IsParsed(t) /\ ~t.pre.authed /\ t.line.action = "auth"
    /\ \/ t.line.clientId \notin ClientIds
       \/ sha256(PresentedKey(t.line)) # clientsById[t.line.clientId].keySha256

\* C10: an `auth` frame that names an unregistered client, or presents a key whose
\* digest differs from the registered hash, is answered with auth_failed and the
\* socket is destroyed; the connection is not bound or registered, no queue is created
\* or drained, and the handler takes no further line; a socket that is not open has
\* no line processed, and a connection that never authenticated is never registered.
C10_AuthFailure ==
    /\ \A i \in 1..Len(last.trace) :
           LET t == last.trace[i]
           IN /\ t.src = "socket" => t.pre.status = "open"
              /\ IsBadAuth(t) =>
                     /\ \A k \in Conns :
                            t.written[k] = IF k = Sender THEN <<[action |-> "auth_failed"]>>
                                           ELSE <<>>
                     /\ t.post.status = "destroyed"
                     /\ ~t.post.authed /\ t.post.clientId = Null
                     /\ t.post.active = t.pre.active
                     /\ t.post.queues = t.pre.queues
                     /\ t.created = <<>>
                     /\ i = Len(last.trace)
                     /\ conns[Sender].status = "destroyed"
    /\ \A c \in Conns : ~conns[c].authed => c \notin Registered(activeConnections)

\* A failed auth with another line behind it in the same chunk, while the named
\* client has envelopes queued.
C10_Witness ==
    /\ last.op = "data"
    /\ Len(last.input) > Len(last.trace)
    /\ \E t \in Steps :
           /\ IsBadAuth(t)
           /\ t.line.clientId \in ClientIds
           /\ QueueIn(t.pre.queues, t.line.clientId) # <<>>
IsGoodAuth(t) ==
    /\ IsParsed(t) /\ ~t.pre.authed /\ t.line.action = "auth"
    /\ t.line.clientId \in ClientIds
    /\ sha256(PresentedKey(t.line)) = clientsById[t.line.clientId].keySha256

\* C11: an `auth` frame that names a registered client and presents its key, on a
\* connection that has not authenticated, leaves the connection authed, bound to that
\* client id and registered; the connection is written auth_ok, whose `queued` is the
\* depth the client's queue had before the frame, and after it one `message` frame
\* per queued envelope, as many as `queued` says; nothing is written to any other
\* connection and the queue is left empty.
C11_AuthSequence ==
    /\ \A t \in Steps :
           IsGoodAuth(t) =>
               LET id == t.line.clientId
                   q == QueueIn(t.pre.queues, id)
                   w == t.written[Sender]
               IN /\ t.post.authed /\ t.post.clientId = id /\ t.post.status = "open"
                  /\ Sender \in recipientsOf(t.post.active, id)
                  /\ w # <<>>
                  /\ Head(w) = [action |-> "auth_ok", clientId |-> id, queued |-> Len(q)]
                  /\ Tail(w) = MessageFrames(q)
                  /\ Len(Tail(w)) = Head(w).queued
                  /\ \A k \in Conns \ {Sender} : t.written[k] = <<>>
                  /\ QueueIn(t.post.queues, id) = <<>>
    /\ \A c \in Conns :
           conns[c].authed =>
               /\ conns[c].clientId \in ClientIds
               /\ conns[c].status = "open" => c \in recipientsOf(activeConnections, conns[c].clientId)

\* A correct auth while the client's queue is full.
C11_Witness ==
    \E t \in Steps :
        IsGoodAuth(t) /\ Len(QueueIn(t.pre.queues, t.line.clientId)) = queueLimit
Pos(seq, x) == CHOOSE i \in 1..Len(seq) : seq[i] = x

\* The ids appear in the order the reference sequence has them.
InOrder(ids, ref) ==
    \A i, j \in 1..Len(ids) :
        (i < j /\ ids[i] \in Range(ref) /\ ids[j] \in Range(ref)) =>
            Pos(ref, ids[i]) < Pos(ref, ids[j])

\* The ids of the envelopes written to connection r that sends of connection s produced.
IdsFrom(s, r) ==
    LET es == SelectSeq(inbox[r], LAMBDA e : origin[e.seq].src = "socket"
                                               /\ origin[e.seq].conn = s)
    IN [i \in 1..Len(es) |-> es[i].id]

\* C12: for every sending connection s and every connection r, the `sent` acks written
\* to s, and the `message` frames written to r for sends of s, appear in the order
\* in which s sent the `send` frames they answer, whatever other connections and the
\* HTTP plane do in between.
C12_PerSenderOrder ==
    \A s \in Conns :
        /\ InOrder(acks[s], issued[s])
        /\ \A r \in Conns : InOrder(IdsFrom(s, r), issued[s])

\* Two sends of one connection, sent in one chunk, delivered to another connection
\* that was written an envelope of the HTTP plane as well.
C12_Witness ==
    \E s, r \in Conns :
        /\ s # r
        /\ Len(IdsFrom(s, r)) = 2
        /\ Len(acks[s]) = 2
        /\ \E i \in 1..Len(inbox[r]) : origin[inbox[r][i].seq].src = "http"
        /\ last.op = "data" /\ Len(last.trace) = 2 /\ last.conn = s
\* The header carries a token whose digest is the configured admin hash.
TokenMatches(token) ==
    /\ adminTokenSha256 # <<>>
    /\ ~Falsy(token)
    /\ sha256(token) = adminTokenSha256

IsHttp(op) == op \in {"http", "api_send"}

\* C13: a request whose path is under /api/ and whose x-bridge-token does not match
\* the admin hash is answered 401 unauthorized and changes nothing: no connection, no
\* registration, no queue, no envelope, no frame written.
C13_ApiRequiresToken ==
    [][(/\ IsHttp(last'.op)
        /\ IsApiPath(last'.input.path)
        /\ ~TokenMatches(last'.input.token)) =>
           (/\ last'.res = Response(401, FALSE, "unauthorized")
            /\ UNCHANGED <<conns, activeConnections, pendingQueues, inbox, nextSeq>>)]_vars
\* An authorized POST /api/send.
IsOperatorSend ==
    /\ last.op = "api_send"
    /\ TokenMatches(last.input.token)
    /\ Len(last.trace) = 1

\* C14: an authorized POST /api/send is answered {ok: true, envelope, routed} exactly
\* when asClient and to are registered clients and asClient's allowlist permits to;
\* the envelope then has from = asClient and to = to, and is written as a `message`
\* frame to every registered connection of `to` (routed = their number, not queued) or,
\* when there is none, appended to the queue of `to` (routed = 0, queued); otherwise the
\* answer is a 400, no envelope is constructed, no frame is written and no queue
\* changes.
C14_OperatorSend ==
    (last.op = "api_send" /\ TokenMatches(last.input.token)) =>
        /\ Len(last.trace) = 1
        /\ LET b == last.input.body
               t == last.trace[1]
               valid == /\ b.asClient \in ClientIds /\ b.to \in ClientIds
                        /\ Permitted(b.asClient, b.to)
           IN /\ last.res.ok <=> valid
              /\ ~valid =>
                     /\ last.res.code = 400
                     /\ t.created = <<>>
                     /\ last.out = NoOut
                     /\ t.post = t.pre
              /\ valid =>
                     LET e == t.created[1]
                         R == recipientsOf(t.pre.active, b.to)
                     IN /\ Len(t.created) = 1
                        /\ e.from = b.asClient /\ e.to = b.to
                        /\ last.res.code = 200
                        /\ last.res.envelope = e
                        /\ t.results = <<last.res.routed>>
                        /\ t.post.active = t.pre.active
                        /\ IF R = {}
                           THEN /\ last.res.routed = [deliveredTo |-> 0, queued |-> TRUE]
                                /\ last.out = NoOut
                                /\ t.post.queues[b.to]
                                       = LastN(Append(QueueIn(t.pre.queues, b.to), e), queueLimit)
                           ELSE /\ last.res.routed
                                       = [deliveredTo |-> Cardinality(R), queued |-> FALSE]
                                /\ \A k \in Conns :
                                       last.out[k] = IF k \in R THEN <<MessageFrame(e)>> ELSE <<>>
                                /\ t.post.queues = t.pre.queues

\* An operator send that is delivered to a connection while asClient has no
\* connection registered.
C14_Witness ==
    /\ IsOperatorSend
    /\ last.res.ok
    /\ last.res.routed.deliveredTo >= 1
    /\ recipientsOf(last.trace[1].pre.active, last.input.body.asClient) = {}
\* A complete, non-blank line of the buffer.
IsFrame(l) == l.syntax \notin {"blank", "partial"}

\* No line before the i-th of the last chunk ended the connection.
AliveAt(i) == \A j \in 1..(i - 1) : j <= Len(last.trace) => ~IsBadAuth(last.trace[j])

\* The i-th line of the last chunk, if it has a size at the frame limit, is treated
\* as the limit says: at maxMessageBytes it is taken by the dispatcher and answered
\* by it, one byte longer it is answered with message_too_large.
BoundaryAt(i) ==
    LET l == last.input[i]
    IN (IsFrame(l) /\ AliveAt(i)) =>
           /\ l.bytes = maxMessageBytes =>
                  /\ i <= Len(last.trace)
                  /\ last.trace[i].written[Sender] # <<>>
                  /\ last.trace[i].written[Sender] # <<ErrorFrame("message_too_large")>>
           /\ l.bytes = maxMessageBytes + 1 =>
                  /\ i <= Len(last.trace)
                  /\ last.trace[i].written[Sender] = <<ErrorFrame("message_too_large")>>

\* C15, as the claim states it: a frame of exactly maxMessageBytes bytes is accepted
\* and processed, and a frame one byte longer is answered with message_too_large,
\* however the frame arrives, pipelined with other frames included.
C15_FrameSizeBoundary ==
    last.op = "data" => \A i \in 1..Len(last.input) : BoundaryAt(i)

\* C15, amended: the same, for every frame of a buffer that, once the chunk is
\* appended, is at most twice maxMessageBytes long.
C15_FrameSizeBoundaryInBuffer ==
    (last.op = "data" /\ ChunkBytes(last.input) <= 2 * maxMessageBytes) =>
        \A i \in 1..Len(last.input) : BoundaryAt(i)

\* A frame of exactly maxMessageBytes bytes that stands second in its chunk, on an
\* authenticated connection, and is answered with pong.
C15_Witness ==
    /\ last.op = "data"
    /\ Len(last.trace) = 2
    /\ IsFrame(last.input[1])
    /\ last.input[2].bytes = maxMessageBytes
    /\ last.trace[2].written[Sender] = <<[action |-> "pong"]>>

IsOversized(t) == t.src = "socket" /\ IsFrame(t.line) /\ t.line.bytes > maxMessageBytes

\* C16, as the claim states it: after a frame longer than maxMessageBytes the
\* connection is closed and the handler takes no further line.
C16_OversizedTerminates ==
    \A i \in 1..Len(last.trace) :
        IsOversized(last.trace[i]) =>
            /\ last.trace[i].post.status # "open"
            /\ i = Len(last.trace)
            /\ conns[Sender].status # "open"

HasBufferExceeded(frames) ==
    \E i \in 1..Len(frames) : frames[i] = ErrorFrame("buffer_exceeded")

\* C16, amended: a frame longer than maxMessageBytes in a buffer within its bound is
\* answered with message_too_large and nothing else happens: the connection stays open
\* as it was, and the handler goes on to the next line of the buffer; a "data" handler
\* destroys the socket only after buffer_exceeded or auth_failed.
C16_OversizedRejected ==
    /\ \A i \in 1..Len(last.trace) :
           LET t == last.trace[i]
           IN IsOversized(t) =>
                  /\ \A k \in Conns :
                         t.written[k] = IF k = Sender THEN <<ErrorFrame("message_too_large")>>
                                        ELSE <<>>
                  /\ t.post = t.pre
                  /\ t.post.status = "open"
                  /\ t.created = <<>>
                  /\ (i < Len(last.input) /\ last.input[i + 1].syntax # "partial") =>
                         i < Len(last.trace)
    /\ (last.op = "data" /\ conns[Sender].status = "destroyed") =>
           \/ HasBufferExceeded(last.out[Sender])
           \/ \E t \in Steps : IsBadAuth(t)

\* An oversized frame on an authenticated connection, and behind it in the same chunk
\* a ping that is answered.
C16_Witness ==
    \E i \in 1..(Len(last.trace) - 1) :
        /\ IsOversized(last.trace[i])
        /\ last.trace[i].pre.authed
        /\ last.trace[i + 1].written[Sender] = <<[action |-> "pong"]>>

\* C17: a "data" handler whose buffer, once the chunk is appended, is longer than
\* twice maxMessageBytes writes buffer_exceeded and destroys the socket, and takes no
\* line of the buffer; a buffer within the bound never draws buffer_exceeded; and the
\* buffer every open connection retains is at most twice maxMessageBytes.
C17_BufferBound ==
    /\ \A c \in Conns : conns[c].status = "open" => conns[c].buffer <= 2 * maxMessageBytes
    /\ last.op = "data" =>
           IF ChunkBytes(last.input) > 2 * maxMessageBytes
           THEN /\ \A k \in Conns :
                       last.out[k] = IF k = Sender THEN <<ErrorFrame("buffer_exceeded")>> ELSE <<>>
                /\ last.trace = <<>>
                /\ conns[Sender].status = "destroyed"
           ELSE ~HasBufferExceeded(last.out[Sender])

\* An authenticated connection is sent a chunk of two frames, each within the frame
\* limit, that takes its buffer over the bound, while another open connection retains
\* exactly twice maxMessageBytes.
C17_Witness ==
    /\ last.op = "data"
    /\ ChunkBytes(last.input) > 2 * maxMessageBytes
    /\ conns[Sender].authed
    /\ Len(last.input) = 2
    /\ \A i \in 1..2 : IsFrame(last.input[i]) /\ last.input[i].bytes <= maxMessageBytes
    /\ \E c \in Conns \ {Sender} :
           conns[c].status = "open" /\ conns[c].buffer = 2 * maxMessageBytes
HasWildcard(id) == id \in ClientIds /\ "*" \in clientsById[id].canSendTo

\* The envelope e went where the router sends it: to every connection registered for
\* its recipient, or to the tail of the recipient's queue.
RoutedIn(t, e) ==
    LET R == recipientsOf(t.pre.active, e.to)
    IN IF R = {}
       THEN /\ t.post.queues[e.to] # <<>>
            /\ t.post.queues[e.to][Len(t.post.queues[e.to])] = e
       ELSE \A k \in R : \E i \in 1..Len(t.written[k]) : t.written[k][i] = MessageFrame(e)

\* C18: a `send` of a connection whose client has "*" in its allowlist, to any
\* registered client, itself included, constructs an envelope, routes it and is
\* acknowledged with `sent`; to an id that is not registered it is answered with
\* unknown_target and constructs nothing.
C18_Wildcard ==
    \A t \in Steps :
        (IsSendFrame(t) /\ HasWildcard(t.pre.clientId) /\ ~Falsy(t.line.to)) =>
            IF t.line.to \in ClientIds
            THEN /\ Len(t.created) = 1 /\ Len(t.results) = 1
                 /\ t.created[1].to = t.line.to
                 /\ RoutedIn(t, t.created[1])
                 /\ t.written[Sender][Len(t.written[Sender])]
                        = SentAck(t.created[1], t.results[1].deliveredTo, t.results[1].queued)
            ELSE /\ t.created = <<>>
                 /\ t.written[Sender] = <<ErrorFrame("unknown_target")>>
                 /\ t.post = t.pre

\* A connection of a client with the wildcard sends to its own client id and is
\* written the `message` frame.
C18_Witness ==
    \E t \in Steps :
        /\ IsSendFrame(t) /\ HasWildcard(t.pre.clientId)
        /\ t.line.to = t.pre.clientId
        /\ Len(t.written[Sender]) = 2
        /\ t.written[Sender][1].action = "message"

\* C19: a `send` whose `to` is a non-empty string that names no registered client is
\* answered with unknown_target, whatever the sender's allowlist; a `send` without
\* `to` is answered with missing_to; neither constructs an envelope, writes to another
\* connection or changes a queue or the registry; and no queue and no registration
\* exists for an id that is not a registered client.
C19_UnknownTarget ==
    /\ \A t \in Steps :
           IsSendFrame(t) =>
               /\ Falsy(t.line.to) =>
                      /\ t.written[Sender] = <<ErrorFrame("missing_to")>>
                      /\ t.created = <<>> /\ t.post = t.pre
               /\ (~Falsy(t.line.to) /\ t.line.to \notin ClientIds) =>
                      /\ \A k \in Conns :
                             t.written[k] = IF k = Sender THEN <<ErrorFrame("unknown_target")>>
                                            ELSE <<>>
                      /\ t.created = <<>>
                      /\ t.results = <<>>
                      /\ t.post = t.pre
    /\ DOMAIN pendingQueues \subseteq ClientIds
    /\ DOMAIN activeConnections \subseteq ClientIds

\* A sender whose allowlist has neither the wildcard nor the id sends to an id that is
\* not registered.
C19_Witness ==
    \E t \in Steps :
        /\ IsSendFrame(t)
        /\ ~HasWildcard(t.pre.clientId)
        /\ ~Falsy(t.line.to) /\ t.line.to \notin ClientIds
        /\ ~Permitted(t.pre.clientId, t.line.to)
\* C20: every envelope written to a connection carries the correlationId that the
\* `send` frame (or the /api/send body) it comes from supplied, unchanged.
C20_CorrelationPassThrough ==
    \A k \in Conns : \A i \in 1..Len(inbox[k]) :
        LET e == inbox[k][i]
            o == origin[e.seq]
        IN o.correlationId # Absent => e.correlationId = o.correlationId
\* ------------------------------------------------------------- envelopes and the clock
\* Sends that supply the fields of the envelope, two of them with the same id, while
\* the wall clock moves.
MaxClock == 1

EnvelopeSend(id, type, payload) ==
    Line("object", 1, "send", Absent, Absent, "b", Absent, id, type, payload, Absent)

EnvelopeSends ==
    {EnvelopeSend("i1", "command", ""), EnvelopeSend("i1", Absent, Absent),
     EnvelopeSend("", "", Null)}

EnvelopeChunks ==
    {<<l>> : l \in {AuthLine("a", "ka"), AuthLine("b", "kb")} \cup EnvelopeSends}
        \cup {<<EnvelopeSend("i1", "command", ""), EnvelopeSend("i1", Absent, Absent)>>}

\* A chunk whose sends may repeat an id; clients send once they are authenticated.
DataRepeat(c, lines) ==
    /\ Head(lines).action = "send" => conns[c].authed
    /\ Data(c, lines)

\* new Date() reads the system's wall clock, which the daemon does not keep: between
\* two handlers it moves forward as time passes, and backward when it is set.
Tick(t) ==
    /\ Idle
    /\ proc.phase \in {"running", "stopping"}
    /\ t # clock
    /\ clock' = t
    /\ UNCHANGED <<conns, activeConnections, pendingQueues, inbox, nextSeq, origin, drained,
                   offered, issued, acks, last, proc, runtimeEvents>>

NextEnvelope ==
    \/ \E c \in Conns : Accept(c)
    \/ \E c \in Conns, lines \in EnvelopeChunks : DataRepeat(c, lines)
    \/ \E t \in 0..MaxClock : Tick(t)
    \/ Return

SpecEnvelope == Init /\ [][NextEnvelope]_vars

\* A `send` the dispatcher accepts: it names a registered client the sender may
\* send to.
IsAcceptedSend(t) ==
    /\ IsSendFrame(t)
    /\ ~Falsy(t.line.to)
    /\ t.line.to \in ClientIds
    /\ Permitted(t.pre.clientId, t.line.to)

\* C21: every accepted `send` constructs one envelope of its own, with the id the
\* frame supplied, whether or not an earlier envelope had that id, and that envelope
\* is written to every connection of the recipient or appended to the recipient's
\* queue; the envelopes of a queue are distinct constructions even when their ids
\* are equal.
C21_NoDeduplication ==
    /\ \A t \in Steps :
           IsAcceptedSend(t) =>
               /\ Len(t.created) = 1
               /\ ~Falsy(t.line.id) => t.created[1].id = t.line.id
               /\ RoutedIn(t, t.created[1])
               /\ recipientsOf(t.pre.active, t.line.to) = {} =>
                      t.post.queues[t.line.to]
                          = LastN(Append(QueueIn(t.pre.queues, t.line.to), t.created[1]),
                                  queueLimit)
    /\ \A id \in DOMAIN pendingQueues :
           \A i, j \in 1..Len(pendingQueues[id]) :
               i < j => pendingQueues[id][i].seq < pendingQueues[id][j].seq

\* A queue holds two envelopes with the same client-supplied id, the second of them
\* enqueued by the last `send`.
C21_Witness ==
    \E t \in Steps :
        /\ IsAcceptedSend(t)
        /\ ~Falsy(t.line.id)
        /\ LET q == pendingQueues[t.line.to]
           IN /\ Len(q) = 2
              /\ q[1].id = t.line.id /\ q[2].id = t.line.id
              /\ q[1].seq # q[2].seq

\* C22: the envelope of an accepted `send` has the frame's `to`, the frame's `type`
\* or "message" when none is supplied, the frame's `payload` whatever JSON value it
\* is or null when the frame has none, the id the frame supplied or a generated one,
\* and the clock's reading as ts; the `sent` ack written to the sender carries the
\* envelope's id and ts and the result deliverEnvelope returned.  A type or an id that
\* is null or the empty string counts as not supplied.
C22_EnvelopeAndAck ==
    \A t \in Steps :
        IsAcceptedSend(t) =>
            /\ Len(t.created) = 1 /\ Len(t.results) = 1
            /\ LET e == t.created[1]
                   R == recipientsOf(t.pre.active, t.line.to)
                   ack == t.written[Sender][Len(t.written[Sender])]
               IN /\ e.to = t.line.to
                  /\ e.type = IF t.line.type \in {Absent, Null, ""} THEN "message"
                              ELSE t.line.type
                  /\ e.payload = IF t.line.payload = Absent THEN Null ELSE t.line.payload
                  /\ e.id = IF t.line.id \in {Absent, Null, ""} THEN randomId("m", e.seq)
                            ELSE t.line.id
                  /\ e.ts = clock
                  /\ t.results[1] = IF R = {} THEN [deliveredTo |-> 0, queued |-> TRUE]
                                    ELSE [deliveredTo |-> Cardinality(R), queued |-> FALSE]
                  /\ ack.action = "sent"
                  /\ ack.id = e.id
                  /\ ack.ts = e.ts
                  /\ ack.deliveredTo = t.results[1].deliveredTo
                  /\ ack.queued = t.results[1].queued

\* A `send` that supplies an id, a type and the empty string as payload, after the
\* clock has moved, is delivered to a connection and acknowledged.
C22_Witness ==
    \E t \in Steps :
        /\ IsAcceptedSend(t)
        /\ t.line.type = "command" /\ t.line.payload = "" /\ t.line.id = "i1"
        /\ t.created[1].ts = MaxClock
        /\ t.results[1].deliveredTo = 1
        /\ t.written[Sender][Len(t.written[Sender])].ts = MaxClock

\* C26: the ts of the envelope of an accepted `send` is at least the ts of the
\* envelope of every earlier accepted `send` of the same connection.
C26_TimestampMonotone ==
    \A i, j \in 1..Len(origin) :
        (i < j /\ origin[i].src = "socket" /\ origin[j].src = "socket"
               /\ origin[i].conn = origin[j].conn) => origin[i].ts <= origin[j].ts
\* The connections bound to a client whose "close" handler has not run.
LiveConns(id) ==
    {c \in Conns : conns[c].authed /\ conns[c].clientId = id /\ conns[c].status # "closed"}

\* C23: once the "close" handler of an authenticated connection has run, whichever
\* side closed the socket, the connection is in no set of the connection manager; a
\* client none of whose connections is left has no entry in the manager; and an
\* envelope routed to such a client is queued: the result says queued with
\* deliveredTo 0, no `message` frame is written, and the envelope is the last of the
\* client's queue.
C23_Closure ==
    /\ \A c \in Conns : conns[c].status = "closed" => c \notin Registered(activeConnections)
    /\ \A id \in ClientIds : LiveConns(id) = {} => id \notin DOMAIN activeConnections
    /\ \A id \in DOMAIN activeConnections : activeConnections[id] # {}
    /\ \A t \in Steps :
           (t.created # <<>> /\ LiveConns(t.created[1].to) = {}) =>
               /\ t.results = <<[deliveredTo |-> 0, queued |-> TRUE]>>
               /\ \A k \in Conns : \A i \in 1..Len(t.written[k]) :
                      t.written[k][i].action # "message"
               /\ t.post.queues[t.created[1].to][Len(t.post.queues[t.created[1].to])]
                      = t.created[1]

\* A connection that was written a `message` frame has closed, its client has no
\* entry left, and the envelope of the last `send` to that client is queued.
C23_Witness ==
    \E t \in Steps, c \in Conns :
        /\ t.created # <<>>
        /\ conns[c].status = "closed" /\ conns[c].authed
        /\ conns[c].clientId = t.created[1].to
        /\ inbox[c] # <<>>
        /\ t.created[1].to \notin DOMAIN activeConnections
        /\ t.results = <<[deliveredTo |-> 0, queued |-> TRUE]>>
\* The write of the `message` frame of a step's envelope to connection k failed.
FailedAt(t, k) ==
    \E i \in 1..Len(t.failed[k]) : t.failed[k][i] = MessageFrame(t.created[1])

\* C24: when the write of a `message` frame to one connection of the recipient
\* fails, the frame is still written to every other connection of the recipient, the
\* recipient's queue is left as it was, the result counts every connection of the
\* recipient and says not queued, and the sender is answered as after any delivery:
\* with the `sent` ack on a socket, with 200 on POST /api/send.
C24_WriteErrors ==
    \A t \in Steps :
        (t.created # <<>> /\ \E k \in Conns : FailedAt(t, k)) =>
            LET e == t.created[1]
                R == recipientsOf(t.pre.active, e.to)
            IN /\ \A k \in R :
                      /\ \E i \in 1..Len(t.written[k]) : t.written[k][i] = MessageFrame(e)
                      /\ conns[k].status = "open" => ~FailedAt(t, k)
               /\ QueueIn(t.post.queues, e.to) = QueueIn(t.pre.queues, e.to)
               /\ t.results = <<[deliveredTo |-> Cardinality(R), queued |-> FALSE]>>
               /\ IF t.src = "socket"
                  THEN /\ t.written[Sender][Len(t.written[Sender])]
                              = SentAck(e, Cardinality(R), FALSE)
                       /\ t.failed[Sender] = <<>>
                  ELSE /\ last.res.code = 200
                       /\ last.res.ok

\* A recipient has two connections, one of them ended and still registered: the
\* write to it fails, and the frame is written to the one with the higher number.
C24_Witness ==
    \E t \in Steps, k1, k2 \in Conns :
        /\ t.created # <<>>
        /\ k1 < k2
        /\ recipientsOf(t.pre.active, t.created[1].to) = {k1, k2}
        /\ FailedAt(t, k1)
        /\ ~FailedAt(t, k2)
        /\ \E i \in 1..Len(t.written[k2]) : t.written[k2][i] = MessageFrame(t.created[1])
\* ------------------------------------------------------------- start-up
\* The config file as loadConfig meets it: missing, not JSON, or JSON whose `clients`
\* is some value; a value that is an array is given by its items, any other value
\* (a string, an object, nothing) by isArray = FALSE.
MaxClients == 2

NotArray == [isArray |-> FALSE, items |-> <<>>]

ArrayOf(items) == [isArray |-> TRUE, items |-> items]

Allowlists == {NotArray, ArrayOf(<<>>), ArrayOf(<<"*">>), ArrayOf(<<"b">>)}

ClientDefs ==
    [id : {Absent, "a", "b"}, keySha256 : {Absent, "h"}, canSendTo : Allowlists]

ClientLists == UNION {[1..n -> ClientDefs] : n \in 0..MaxClients}

ConfigFiles ==
    {[file |-> f, clients |-> NotArray] : f \in {"missing", "garbage", "json"}}
        \cup {[file |-> "json", clients |-> ArrayOf(l)] : l \in ClientLists}

Thrown(message) == [ok |-> FALSE, error |-> message]

\* The for loop of loadConfig over config.clients, from the i-th client on.
RECURSIVE checkClients(_, _, _)
checkClients(list, i, seen) ==
    IF i > Len(list) THEN [ok |-> TRUE, error |-> Absent]
    ELSE IF Falsy(list[i].id) \/ Falsy(list[i].keySha256)
    THEN Thrown("each client requires id and keySha256")
    ELSE IF list[i].id \in seen THEN Thrown("duplicate client id")
    ELSE checkClients(list, i + 1, seen \cup {list[i].id})

\* client.canSendTo = Array.isArray(client.canSendTo) ? client.canSendTo : []
normalizeClient(client) ==
    [client EXCEPT !.canSendTo = IF @.isArray THEN @ ELSE ArrayOf(<<>>)]

\* loadConfig: what it throws, or the clients of the config it returns.
loadConfig(cfg) ==
    IF cfg.file = "missing" THEN Thrown("Config not found")
    ELSE IF cfg.file = "garbage" THEN Thrown("SyntaxError")
    ELSE IF ~cfg.clients.isArray \/ Len(cfg.clients.items) = 0
    THEN Thrown("config.clients must contain at least one client")
    ELSE LET checked == checkClients(cfg.clients.items, 1, {})
         IN IF ~checked.ok THEN checked
            ELSE [ok |-> TRUE, error |-> Absent,
                  clients |-> [i \in 1..Len(cfg.clients.items) |->
                                  normalizeClient(cfg.clients.items[i])]]

InitConfig ==
    /\ conns = [c \in Conns |-> NoConn]
    /\ activeConnections = <<>>
    /\ pendingQueues = <<>>
    /\ inbox = [c \in Conns |-> <<>>]
    /\ nextSeq = 0
    /\ origin = <<>>
    /\ drained = [c \in Conns |-> <<>>]
    /\ offered = [id \in ClientIds |-> <<>>]
    /\ issued = [c \in Conns |-> <<>>]
    /\ acks = [c \in Conns |-> <<>>]
    /\ last = [op |-> "idle", conn |-> 0, input |-> <<>>, out |-> NoOut, trace |-> <<>>,
               res |-> NoResponse, offeredBefore |-> [id \in ClientIds |-> <<>>]]
    /\ clock = 0
    /\ runtimeEvents = <<>>
    /\ \E cfg \in ConfigFiles : proc = [phase |-> "starting", code |-> NoCode, config |-> cfg,
                                        timer |-> FALSE]

\* const config = loadConfig(CONFIG_PATH) at the top of the script: an exception it
\* throws is not caught and ends the process with code 1; otherwise the script goes
\* on to start the servers.
Load ==
    /\ proc.phase = "starting"
    /\ proc' = IF loadConfig(proc.config).ok
               THEN [proc EXCEPT !.phase = "running"]
               ELSE [proc EXCEPT !.phase = "exited", !.code = 1]
    /\ UNCHANGED <<conns, activeConnections, pendingQueues, inbox, nextSeq, origin, drained,
                   offered, issued, acks, last, clock, runtimeEvents>>

NextConfig == Load

SpecConfig == InitConfig /\ [][NextConfig]_vars

\* The rules the claim lists, read off a config file.
RuleFileExists(cfg) == cfg.file # "missing"

RuleJsonParses(cfg) == cfg.file # "garbage"

RuleClientsNonEmptyArray(cfg) == cfg.clients.isArray /\ Len(cfg.clients.items) > 0

RuleIdAndKey(cfg) ==
    \A i \in 1..Len(cfg.clients.items) :
        /\ cfg.clients.items[i].id \notin {Absent, Null, ""}
        /\ cfg.clients.items[i].keySha256 \notin {Absent, Null, ""}

RuleUniqueIds(cfg) ==
    \A i, j \in 1..Len(cfg.clients.items) :
        i # j => cfg.clients.items[i].id # cfg.clients.items[j].id

RuleAllowlistIsArray(cfg) ==
    \A i \in 1..Len(cfg.clients.items) : cfg.clients.items[i].canSendTo.isArray

\* C25: the daemon gets past loadConfig only with a config file that exists, parses,
\* has a non-empty array of clients, each with an identifier and a key hash, with
\* identifiers that are unique and allowlists that are arrays.
C25_ValidationFatal ==
    (proc.phase = "running" /\ proc.config # FromRegistry) =>
        /\ RuleFileExists(proc.config)
        /\ RuleJsonParses(proc.config)
        /\ RuleClientsNonEmptyArray(proc.config)
        /\ RuleIdAndKey(proc.config)
        /\ RuleUniqueIds(proc.config)
        /\ RuleAllowlistIsArray(proc.config)
\* ------------------------------------------------------------- shutdown
\* shutdown(signal): both servers are closed, which stops their listening, and the
\* timer of 1500 ms is set.
shutdownMutNoTimer(p) == [p EXCEPT !.phase = "stopping"]

shutdown(p) == [p EXCEPT !.phase = "stopping", !.timer = TRUE]

\* process.on("SIGINT" / "SIGTERM"); a second signal finds the servers closed and
\* sets one more timer.
Signal ==
    /\ Idle
    /\ proc.phase \in {"running", "stopping"}
    /\ proc' = shutdown(proc)
    /\ UNCHANGED <<conns, activeConnections, pendingQueues, inbox, nextSeq, origin, drained,
                   offered, issued, acks, last, clock, runtimeEvents>>

\* The callback of httpServer.close: it runs once the last HTTP connection has
\* ended, which is up to the peers.
HttpServerClosed ==
    /\ proc.phase = "stopping"
    /\ proc' = [proc EXCEPT !.phase = "exited", !.code = 0]
    /\ UNCHANGED <<conns, activeConnections, pendingQueues, inbox, nextSeq, origin, drained,
                   offered, issued, acks, last, clock, runtimeEvents>>

\* setTimeout(() => process.exit(0), 1500): the sockets that are open keep the event
\* loop running, and the loop runs the callback when the timer is due.
GraceTimer ==
    /\ proc.phase = "stopping"
    /\ proc.timer
    /\ proc' = [proc EXCEPT !.phase = "exited", !.code = 0]
    /\ UNCHANGED <<conns, activeConnections, pendingQueues, inbox, nextSeq, origin, drained,
                   offered, issued, acks, last, clock, runtimeEvents>>

ShutdownChunks ==
    {<<AuthLine("a", "ka")>>, <<AuthLine("b", "kb")>>, <<AuthLine("b", "ka")>>,
     <<SendPlain("b")>>}

NextShutdown ==
    \/ \E c \in Conns : Accept(c)
    \/ \E c \in Conns, lines \in ShutdownChunks : Data(c, lines)
    \/ \E c \in Conns : PeerEnd(c)
    \/ \E c \in Conns : Close(c)
    \/ Signal
    \/ HttpServerClosed
    \/ GraceTimer
    \/ Return

\* No handler runs for ever, so a timer that is due gets its turn.
SpecShutdown == Init /\ [][NextShutdown]_vars /\ WF_vars(GraceTimer)

\* C27: once a termination signal has been handled no connection is accepted, and
\* the process comes to exit with code 0, whatever the connections do.
C27_GracefulShutdown ==
    /\ [][proc.phase # "running" =>
              \A c \in Conns : conns[c].status = "none" => conns'[c].status = "none"]_vars
    /\ [](proc.phase = "stopping" => <>(proc.phase = "exited" /\ proc.code = 0))

\* The process has exited with code 0 after the timer, with an authenticated
\* connection still open.
C27_Witness ==
    /\ proc.phase = "exited"
    /\ proc.code = 0
    /\ proc.timer
    /\ \E c \in Conns : conns[c].status = "open" /\ conns[c].authed
\* C28: a parsed frame on an authenticated connection whose action is none of ping,
\* send and whoami (`auth` and a missing action included) is answered with
\* unknown_action and nothing else: the connection stays open and bound to its
\* client, nothing is written to another connection, no envelope is constructed, and
\* the handler goes on to the next line.
C28_UnknownAction ==
    \A i \in 1..Len(last.trace) :
        LET t == last.trace[i]
        IN (IsParsed(t) /\ t.pre.authed /\ t.line.action \notin {"ping", "send", "whoami"}) =>
               /\ \A k \in Conns :
                      t.written[k] = IF k = Sender THEN <<ErrorFrame("unknown_action")>>
                                     ELSE <<>>
               /\ t.post = t.pre
               /\ t.post.status = "open" /\ t.post.authed
               /\ t.created = <<>>
               /\ i < Len(last.input) => Len(last.trace) > i

\* An authenticated connection sends `auth` twice in one chunk: each frame is
\* answered with unknown_action.
C28_Witness ==
    /\ last.op = "data"
    /\ Len(last.trace) = 2
    /\ last.trace[1].pre.authed
    /\ last.trace[1].line.action = "auth"
    /\ last.trace[1].written[Sender] = <<ErrorFrame("unknown_action")>>
    /\ last.trace[2].written[Sender] = <<ErrorFrame("unknown_action")>>
\* ------------------------------------------------------------- protocol errors
\* One line for every error the "data" handler answers with, and a chunk that
\* overflows the buffer; each alone, and followed by a ping.
ErrorLines ==
    {AuthLine("b", "ka"), AuthLine("x", "ka"),
     Line("garbage", 1, Absent, Absent, Absent, Absent, Absent, Absent, Absent, Absent, Absent),
     Plain("ping", maxMessageBytes + 1), Plain("ping", 1), Plain("nope", 1),
     SendPlain(Absent), SendPlain("x"), SendPlain("a")}

ErrorChunks ==
    {<<l>> : l \in ErrorLines \cup {AuthLine("a", "ka"), Plain("ping", 2 * maxMessageBytes)}}
        \cup {<<l, Plain("ping", 1)>> : l \in ErrorLines}

NextErrors ==
    \/ \E c \in Conns : Accept(c)
    \/ \E c \in Conns, lines \in ErrorChunks : Data(c, lines)
    \/ \E c \in Conns : PeerEnd(c)
    \/ \E c \in Conns : Close(c)
    \/ Return

SpecErrors == Init /\ [][NextErrors]_vars

ProtocolErrors ==
    {ErrorFrame(code) : code \in {"invalid_json", "message_too_large", "auth_required",
                                  "unknown_action", "missing_to", "unknown_target",
                                  "route_not_allowed"}}

FinalFrames == {[action |-> "auth_failed"], ErrorFrame("buffer_exceeded")}

\* C29: a connection becomes destroyed only in its own "data" handler, and the last
\* frame that handler wrote to it, with the socket still open, is auth_failed or
\* buffer_exceeded; a line answered with any other error leaves the connection open
\* and as it was, and the handler goes on with the next line.
C29_DestructionPolicy ==
    [][/\ \A c \in Conns :
              (conns[c].status # "destroyed" /\ conns'[c].status = "destroyed") =>
                  /\ last'.op = "data" /\ last'.conn = c
                  /\ conns[c].status = "open"
                  /\ last'.out[c] # <<>>
                  /\ last'.out[c][Len(last'.out[c])] \in FinalFrames
                  /\ \A i \in 1..Len(last'.trace) : last'.trace[i].failed[c] = <<>>
       /\ \A i \in 1..Len(last'.trace) :
              LET t == last'.trace[i]
              IN (t.src = "socket" /\ \E j \in 1..Len(t.written[last'.conn]) :
                                          t.written[last'.conn][j] \in ProtocolErrors) =>
                     /\ t.post = t.pre
                     /\ t.post.status = "open"
                     /\ i < Len(last'.input) => Len(last'.trace) > i
                     /\ i = Len(last'.trace) => conns'[last'.conn].status = "open"]_vars

\* Both ways to be destroyed have happened: one connection overflowed its buffer, and
\* the last handler answered a wrong key with auth_failed and destroyed the other.
C29_Witness ==
    /\ last.op = "data"
    /\ conns[Sender].status = "destroyed"
    /\ last.out[Sender] = <<[action |-> "auth_failed"]>>
    /\ \E c \in Conns :
           /\ c # Sender
           /\ conns[c].status = "destroyed"
           /\ conns[c].buffer > 2 * maxMessageBytes
\* The last handler served GET /api/status to a caller with the token.
IsStatus(l) ==
    /\ l.op = "http"
    /\ l.input.method = "GET"
    /\ l.input.path = <<"api", "status">>
    /\ l.res.code = 200

\* C30: the response to GET /api/status has an `active` entry for exactly the clients
\* with a registered connection, equal to the number of their registered
\* connections, and a `queued` entry for every client of the registry, equal to the
\* length of its queue; serving it leaves every queue with the envelopes it had, and
\* the connection manager, the connections and what was delivered as they were, and
\* constructs no envelope.
C30_StatusSnapshot ==
    [][IsStatus(last') =>
           /\ DOMAIN last'.res.active = DOMAIN activeConnections
           /\ \A id \in DOMAIN activeConnections :
                  /\ last'.res.active[id] = Cardinality(activeConnections[id])
                  /\ last'.res.active[id] >= 1
           /\ DOMAIN last'.res.queued = ClientIds
           /\ \A id \in ClientIds :
                  /\ last'.res.queued[id] = Len(QueueIn(pendingQueues, id))
                  /\ QueueIn(pendingQueues', id) = QueueIn(pendingQueues, id)
           /\ activeConnections' = activeConnections
           /\ conns' = conns
           /\ inbox' = inbox
           /\ nextSeq' = nextSeq]_vars

\* A status that reports two connections for one client and a queued envelope for
\* the other.
C30_Witness ==
    /\ IsStatus(last)
    /\ \E id \in DOMAIN last.res.active : last.res.active[id] = 2
    /\ \E id \in ClientIds : last.res.queued[id] >= 1 /\ id \notin DOMAIN last.res.active
\* ------------------------------------------------------------- the event ring
\* The ring's capacity (1000 in the program) and the number of events pushed.
maxRuntimeEvents == 3

MaxEvents == 6

\* The entry pushRuntimeEvent builds; n, the ordinal of the push, stands for the
\* random id.  message and details are left out.
RuntimeEntry(level, eventType, n) ==
    [id |-> randomId("evt", n), ts |-> nowIso,
     level |-> IF Falsy(level) THEN "info" ELSE level,
     eventType |-> IF Falsy(eventType) THEN "bridge.log" ELSE eventType,
     source |-> "bridge", n |-> n]

\* pushRuntimeEvent: push, then shift when the ring is over its capacity.
pushRuntimeEventMutNoShift(ring, entry) == Append(ring, entry)

pushRuntimeEvent(ring, entry) ==
    LET pushed == Append(ring, entry)
    IN IF Len(pushed) > maxRuntimeEvents THEN Tail(pushed) ELSE pushed

\* The calls of pushRuntimeEvent: writeLog with its level, deliverEnvelope when it
\* queues (warn) and when it delivers (info).
EventKinds ==
    {<<"info", "bridge.log">>, <<"warn", "bridge.log">>, <<"error", "bridge.log">>,
     <<Absent, Absent>>, <<"warn", "bridge.route">>, <<"info", "bridge.route">>}

Pushed == IF runtimeEvents = <<>> THEN 0 ELSE runtimeEvents[Len(runtimeEvents)].n

PushRuntimeEvent(level, eventType) ==
    /\ proc.phase \in {"running", "stopping"}
    /\ Pushed < MaxEvents
    /\ runtimeEvents' = pushRuntimeEvent(runtimeEvents,
                                         RuntimeEntry(level, eventType, Pushed + 1))
    /\ UNCHANGED <<conns, activeConnections, pendingQueues, inbox, nextSeq, origin, drained,
                   offered, issued, acks, last, clock, proc>>

NextRing ==
    \/ \E k \in EventKinds : PushRuntimeEvent(k[1], k[2])
    \/ \E t \in 0..MaxClock : Tick(t)

SpecRing == Init /\ [][NextRing]_vars

\* C31: the ring never holds more than maxRuntimeEvents entries; a push into a ring
\* that is not full appends the new entry, and a push into a full ring drops the
\* oldest entry, keeps the others in their order and puts the new entry last.
C31_EventRingBound ==
    /\ [](Len(runtimeEvents) <= maxRuntimeEvents)
    /\ [][runtimeEvents' # runtimeEvents =>
              /\ Len(runtimeEvents') <= maxRuntimeEvents
              /\ runtimeEvents'[Len(runtimeEvents')].n = Pushed + 1
              /\ IF Len(runtimeEvents) < maxRuntimeEvents
                 THEN SubSeq(runtimeEvents', 1, Len(runtimeEvents)) = runtimeEvents
                 ELSE /\ Len(runtimeEvents') = maxRuntimeEvents
                      /\ SubSeq(runtimeEvents', 1, maxRuntimeEvents - 1)
                             = Tail(runtimeEvents)]_vars

\* The ring is full and has dropped its two oldest entries.
C31_Witness ==
    /\ Len(runtimeEvents) = maxRuntimeEvents
    /\ runtimeEvents[1].n = 3
\* C32: when a handler has finished, and after every line it handled, a client whose
\* queue holds an envelope has no connection in the connection manager.
C32_QueuedOnlyWhenUnregistered ==
    /\ \A id \in DOMAIN pendingQueues :
           pendingQueues[id] # <<>> => id \notin DOMAIN activeConnections
    /\ \A t \in Steps : \A id \in DOMAIN t.post.queues :
           t.post.queues[id] # <<>> => id \notin DOMAIN t.post.active

\* A connection has just authenticated and drained a queue of two envelopes, which is
\* now empty, while the other client has a queued envelope and no connection.
C32_Witness ==
    /\ last.op = "data"
    /\ \E t \in Steps : IsAuthSuccess(t) /\ Len(QueueIn(t.pre.queues, t.post.clientId)) = 2
    /\ conns[Sender].clientId \in DOMAIN activeConnections
    /\ pendingQueues[conns[Sender].clientId] = <<>>
    /\ \E id \in DOMAIN pendingQueues :
           pendingQueues[id] # <<>> /\ id \notin DOMAIN activeConnections
\* C33: every connection in the connection manager has an open socket, and an
\* envelope whose result says delivered was written to at least one connection whose
\* socket was open.
C33_RegisteredAreOpen ==
    /\ \A c \in Registered(activeConnections) : conns[c].status = "open"
    /\ \A t \in Steps :
           (t.created # <<>> /\ t.results[1].deliveredTo >= 1) =>
               \E k \in recipientsOf(t.pre.active, t.created[1].to) : ~FailedAt(t, k)
\* How often an envelope (told by its seq) occurs in a sequence of envelopes.
Occurrences(envelopes, e) ==
    Cardinality({i \in 1..Len(envelopes) : envelopes[i].seq = e.seq})

WrittenIn(t, k, e) ==
    Cardinality({i \in 1..Len(t.written[k]) : t.written[k][i] = MessageFrame(e)})

\* C34: the envelope of an accepted send is either written once to each connection
\* the recipient has at routing time and put in no queue, or put once in the
\* recipient's queue and written to nobody.  An envelope in a queue has been written
\* to no connection; an envelope a connection drained from the queue when it
\* authenticated was written to that connection and to no other; no connection is
\* written an envelope twice, or an envelope for a client other than its own.
C34_OnePath ==
    /\ \A t \in Steps :
           t.created # <<>> =>
               LET e == t.created[1]
                   R == recipientsOf(t.pre.active, e.to)
               IN IF R # {}
                  THEN /\ \A k \in Conns : WrittenIn(t, k, e) = IF k \in R THEN 1 ELSE 0
                       /\ \A id \in DOMAIN t.post.queues :
                              Occurrences(t.post.queues[id], e) = 0
                  ELSE /\ \A k \in Conns : WrittenIn(t, k, e) = 0
                       /\ \A id \in DOMAIN t.post.queues :
                              Occurrences(t.post.queues[id], e) = IF id = e.to THEN 1 ELSE 0
    /\ \A c \in Conns : \A i \in 1..Len(inbox[c]) :
           /\ Occurrences(inbox[c], inbox[c][i]) = 1
           /\ inbox[c][i].to = conns[c].clientId
    /\ \A id \in DOMAIN pendingQueues : \A i \in 1..Len(pendingQueues[id]) :
           /\ pendingQueues[id][i].to = id
           /\ \A c \in Conns : Occurrences(inbox[c], pendingQueues[id][i]) = 0
    /\ \A c \in Conns : \A i \in 1..Len(drained[c]) :
           /\ Occurrences(inbox[c], drained[c][i]) = 1
           /\ \A k \in Conns \ {c} : Occurrences(inbox[k], drained[c][i]) = 0

\* Two connections of one client: the first drained an envelope from the queue, the
\* second authenticated later and was not written it, and a later envelope was
\* written to both.
C34_Witness ==
    \E c1, c2 \in Conns :
        /\ c1 # c2
        /\ conns[c1].clientId = conns[c2].clientId
        /\ drained[c1] # <<>>
        /\ Occurrences(inbox[c2], drained[c1][1]) = 0
        /\ \E i \in 1..Len(inbox[c2]) : Occurrences(inbox[c1], inbox[c2][i]) = 1
\* C35: the connection manager holds, under a client id, exactly the connections
\* that authenticated as that client and whose "close" handler has not run: none of
\* them unauthenticated or bound to another id, no set empty, no connection under two
\* ids; and the count GET /api/status reports for a client is the number of these
\* connections.
C35_RegistryConsistent ==
    /\ \A id \in DOMAIN activeConnections :
           /\ activeConnections[id] # {}
           /\ \A c \in activeConnections[id] : conns[c].authed /\ conns[c].clientId = id
    /\ \A id1, id2 \in DOMAIN activeConnections :
           id1 # id2 => activeConnections[id1] \cap activeConnections[id2] = {}
    /\ \A id \in ClientIds : recipientsOf(activeConnections, id) = LiveConns(id)
    /\ \A c \in Conns : ~conns[c].authed => c \notin Registered(activeConnections)
    /\ IsStatus(last) =>
           \A id \in ClientIds :
               (IF id \in DOMAIN last.res.active THEN last.res.active[id] ELSE 0)
                   = Cardinality(LiveConns(id))

\* A status that reports one connection for a client whose other connection has
\* closed.
C35_Witness ==
    /\ IsStatus(last)
    /\ \E c1, c2 \in Conns :
           /\ conns[c1].authed /\ conns[c1].status = "closed"
           /\ conns[c2].authed /\ conns[c2].status = "open"
           /\ conns[c1].clientId = conns[c2].clientId
           /\ last.res.active[conns[c2].clientId] = 1
\* C36: once a connection is bound to a client id it stays authenticated and bound
\* to that id in every later state, and a connection is bound exactly when it is
\* authenticated; an `auth` frame on an authenticated connection, whatever
\* credentials it carries, is answered with unknown_action and changes neither the
\* binding nor the connection manager nor any queue, and writes to no other
\* connection.
C36_BoundOnce ==
    [][/\ \A c \in Conns :
              /\ conns[c].clientId # Null =>
                     /\ conns'[c].clientId = conns[c].clientId
                     /\ conns'[c].authed
              /\ conns'[c].authed <=> conns'[c].clientId # Null
       /\ \A i \in 1..Len(last'.trace) :
              LET t == last'.trace[i]
              IN (IsParsed(t) /\ t.pre.authed /\ t.line.action = "auth") =>
                     /\ \A k \in Conns :
                            t.written[k] = IF k = last'.conn
                                           THEN <<ErrorFrame("unknown_action")>> ELSE <<>>
                     /\ t.post = t.pre]_vars

\* A connection bound to a sends `auth` with the id and the key of b while b's queue
\* holds an envelope: it stays bound to a and the queue stays as it is.
C36_Witness ==
    \E t \in Steps :
        /\ IsParsed(t) /\ t.pre.authed /\ t.pre.clientId = "a"
        /\ t.line = AuthLine("b", "kb")
        /\ QueueIn(t.pre.queues, "b") # <<>>
        /\ conns[Sender].clientId = "a"
        /\ QueueIn(pendingQueues, "b") = QueueIn(t.pre.queues, "b")
\* The frames that answer a frame without routing anything: the protocol errors
\* after which the connection continues, pong and whoami.
IsLocalReply(frame) ==
    \/ frame \in ProtocolErrors
    \/ frame.action \in {"pong", "whoami"}

\* A line that is answered with a protocol error, or is a ping or a whoami.
IsLocalStep(t) ==
    /\ t.src = "socket"
    /\ t.written[Sender] # <<>>
    /\ IsLocalReply(t.written[Sender][Len(t.written[Sender])])

\* C37: a line that is answered with invalid_json, message_too_large, auth_required,
\* unknown_action, missing_to, unknown_target or route_not_allowed, or with pong or
\* whoami, gets that one frame and nothing else: every queue, the connection manager
\* and the sender's authentication, client id and socket state are after the line
\* what they were before it, no envelope is constructed and nothing is written to
\* another connection; and a ping or whoami of an authenticated connection, and every
\* line the dispatcher rejects, is such a line.
C37_RejectedIsLocal ==
    \A t \in Steps :
        /\ IsLocalStep(t) =>
               /\ Len(t.written[Sender]) = 1
               /\ \A k \in Conns \ {Sender} : t.written[k] = <<>>
               /\ t.created = <<>> /\ t.results = <<>>
               /\ t.post = t.pre
        /\ (IsParsed(t) /\ t.pre.authed /\ t.line.action \in {"ping", "whoami"}) =>
               IsLocalStep(t)
        /\ (IsSendFrame(t) /\ ~IsAcceptedSend(t)) => IsLocalStep(t)
        /\ (IsParsed(t) /\ ~t.pre.authed /\ t.line.action # "auth") =>
               t.written[Sender] = <<ErrorFrame("auth_required")>>

\* A connection of a is refused a `send` to its own client while another connection
\* is registered and a queue holds an envelope.
C37_Witness ==
    \E t \in Steps :
        /\ IsLocalStep(t)
        /\ t.written[Sender] = <<ErrorFrame("route_not_allowed")>>
        /\ Registered(t.pre.active) \ {Sender} # {}
        /\ \E id \in DOMAIN t.pre.queues : t.pre.queues[id] # <<>>
\* The connections registered for a client in a snapshot of the connection manager.
RegisteredFor(active, clientId) ==
    IF clientId \in DOMAIN active THEN active[clientId] ELSE {}

\* C38: an accepted `send` whose `to` is the sender's own client id finds the sending
\* connection among the recipients: the sender is written the `message` frame of the
\* envelope and then the `sent` ack, the ack reports the number of connections of the
\* client, at least 1, and queued = false, every other connection of the client is
\* written the same `message` frame, and no queue changes.
C38_SelfSend ==
    \A t \in Steps :
        (IsAcceptedSend(t) /\ t.line.to = t.pre.clientId) =>
            LET R == RegisteredFor(t.pre.active, t.line.to)
            IN /\ Sender \in R
               /\ Len(t.created) = 1
               /\ t.written[Sender]
                      = <<MessageFrame(t.created[1]), SentAck(t.created[1], Cardinality(R), FALSE)>>
               /\ t.failed[Sender] = <<>>
               /\ \A k \in R \ {Sender} : t.written[k] = <<MessageFrame(t.created[1])>>
               /\ t.results = <<[deliveredTo |-> Cardinality(R), queued |-> FALSE]>>
               /\ t.post.queues = t.pre.queues

\* A client with two connections sends to itself on one of them: both are written
\* the `message` frame and the ack reports two deliveries.
C38_Witness ==
    \E t \in Steps :
        /\ IsAcceptedSend(t) /\ t.line.to = t.pre.clientId
        /\ Cardinality(RegisteredFor(t.pre.active, t.line.to)) = 2
        /\ Len(t.written[Sender]) = 2
        /\ t.written[Sender][2].action = "sent"
        /\ t.written[Sender][2].deliveredTo = 2
        /\ ~t.written[Sender][2].queued
====
